---- MODULE Spec2Model ----
(***************************************************************************)
(* A model of kitty-tab-switcher's interactive session (tab_switcher.py):  *)
(* the construction of a RawSwitcher (MRU reconciliation, initial          *)
(* selection), the event loop of RawSwitcher.run (idle tick, command       *)
(* channel, key events) and commit / cancel.                               *)
(*                                                                         *)
(* Time is counted in milliseconds; a score of the MRU map is a time in    *)
(* milliseconds.  selected_index is 0-based as in the source, sequences    *)
(* are 1-based, so the selected tab is tabs[selected_index + 1].           *)
(***************************************************************************)
EXTENDS Integers, Sequences, FiniteSets, TLC

VARIABLES
    pc,                  \* "new" | "reconciled" | "start" | "loop" | "done"
    state,               \* "Active" | "Committed" | "Cancelled"
    now,                 \* time.time() of the handler that ran last
    direction,           \* 1 ("next") or -1 ("prev")
    hostTabs,            \* the tab list as the host reported it
    mru,                 \* the persisted MRU map main() loaded
    tabs, last_used, original_tab_id, mru_order, selected_index,
    ctrl_down, start_time, saw_tab_event, ctrl_seen, mod_query,
    poll_ctrl_seen, any_key_event, ctrl_up_streak, marker_seen, marker_sent,
    initial_mods_checked, initial_ctrl_down,
    preview_cache, preview_cache_ts, preview_queue,
    store,               \* the persisted MRU entry of this (pid, group)
    preview_store,       \* the persisted preview entry of this (pid, group)
    focus,               \* the focus-tab requests sent to the host, in order
    commit_by,           \* the guard that committed ("none" while there is none)
    arg,                 \* the input of the function under examination
    ret                  \* what the function returned for it

vars == <<pc, state, now, direction, hostTabs, mru, tabs, last_used,
          original_tab_id, mru_order, selected_index, ctrl_down,
          start_time, saw_tab_event, ctrl_seen, mod_query, poll_ctrl_seen,
          any_key_event, ctrl_up_streak, marker_seen, marker_sent,
          initial_mods_checked, initial_ctrl_down, preview_cache,
          preview_cache_ts, preview_queue, store, preview_store, focus,
          commit_by, arg, ret>>

---------------------------------------------------------------------------
(* Program constants *)

TAB_CODE == 9
ESC_CODE == 27
CTRL_KEY_CODES == {57442, 57448}
MARKER_KEY_CODE == 57387
Q_CODE == 113
PREVIEW_REFRESH_MS == 500
TICK_MS == 50
MARKER_TIMEOUT_MS == 150
INITIAL_UP_TIMEOUT_MS == 80
NO_MARKER_TIMEOUT_MS == 200
NO_TAB_TIMEOUT_MS == 200
CTRL_RELEASE_MS == 200
GLFW_MOD_CONTROL == 4
NoneVal == -1

(* Bounds of the model *)

MaxTabs == 4
MaxNewTabs == 3
MaxOracleTabs == 1
MaxElapsed == 250
Now0 == 1000
FutureScore == 2000

Max(a, b) == IF a >= b THEN a ELSE b

Min(a, b) == IF a <= b THEN a ELSE b

\* bit k (a power of two) of x, two's complement for a negative x
BitSet(x, k) == ((x \div k) % 2) = 1

Range(s) == {s[i] : i \in 1..Len(s)}

EmptyMap == [x \in {} |-> 0]

---------------------------------------------------------------------------
(* RawSwitcher.__init__: reconciliation and the initial selection *)

TabInfo(id, is_active, last_focused) ==
    [id |-> id, is_active |-> is_active, last_focused |-> last_focused]

TabIds(ts) == [i \in 1..Len(ts) |-> ts[i].id]

\* base_rank: a dict comprehension, so the last position of an id wins
base_rank(ts, tid) ==
    CHOOSE i \in 1..Len(ts) :
        ts[i].id = tid /\ \A j \in 1..Len(ts) : ts[j].id = tid => j <= i

by_id(ts, tid) == ts[base_rank(ts, tid)]

_active_tab_id(ts) ==
    IF \E i \in 1..Len(ts) : ts[i].is_active
    THEN ts[CHOOSE i \in 1..Len(ts) :
                ts[i].is_active /\ \A j \in 1..(i - 1) : ~ts[j].is_active].id
    ELSE IF Len(ts) > 0 THEN ts[1].id ELSE NoneVal

HasHostTimestamps(ts) == \E i \in 1..Len(ts) : ts[i].last_focused # NoneVal

\* mutant: a tab without a host timestamp falls back to its persisted score
ScoresFromHostOrStore(ts) ==
    [tid \in Range(TabIds(ts)) |->
        IF by_id(ts, tid).last_focused # NoneVal THEN by_id(ts, tid).last_focused
        ELSE IF tid \in DOMAIN mru THEN mru[tid] ELSE 0]

ScoresFromHost(ts) ==
    [tid \in Range(TabIds(ts)) |->
        IF by_id(ts, tid).last_focused # NoneVal
        THEN by_id(ts, tid).last_focused ELSE 0]

ScoresFromCache(ts, lu) ==
    [tid \in Range(TabIds(ts)) |-> IF tid \in DOMAIN lu THEN lu[tid] ELSE 0]

ForceActive(ts, out, t) ==
    IF _active_tab_id(ts) # NoneVal
    THEN [out EXCEPT ![_active_tab_id(ts)] = Max(out[_active_tab_id(ts)], t)]
    ELSE out

ReconcileScores(ts, lu, t) ==
    IF HasHostTimestamps(ts)
    THEN ForceActive(ts, ScoresFromHost(ts), t)
    ELSE ForceActive(ts, ScoresFromCache(ts, lu), t)

\* mutant: equal scores ordered by tab id instead of by the host's position
SortKeyLessById(ts, out, a, b) ==
    \/ out[a] > out[b]
    \/ out[a] = out[b] /\ a < b

\* the sort key (-score, base_rank) of sorted(out.items(), key=...)
SortKeyLess(ts, out, a, b) ==
    \/ out[a] > out[b]
    \/ out[a] = out[b] /\ base_rank(ts, a) < base_rank(ts, b)

RECURSIVE SortedIds(_, _, _)
SortedIds(ts, out, S) ==
    IF S = {} THEN <<>>
    ELSE LET m == CHOOSE a \in S : \A b \in S \ {a} : SortKeyLess(ts, out, a, b)
         IN  <<m>> \o SortedIds(ts, out, S \ {m})

ReconcileTabs(ts, lu, t) ==
    LET out == ReconcileScores(ts, lu, t)
        ordered == SortedIds(ts, out, DOMAIN out)
    IN  [i \in 1..Len(ordered) |-> by_id(ts, ordered[i])]

\* mutant: "prev" selects the item before the last one
InitialIndexOffByOne(ts, dir) ==
    IF Len(ts) = 0 THEN 0
    ELSE IF dir >= 0 THEN 1 % Len(ts)
    ELSE (Len(ts) - 2) % Len(ts)

_initial_index(ts, dir) ==
    IF Len(ts) = 0 THEN 0
    ELSE IF dir >= 0 THEN 1 % Len(ts)
    ELSE (Len(ts) - 1) % Len(ts)

---------------------------------------------------------------------------
(* Key events and the modifier oracle *)

KeyEvent(key_code, mods, event_type) ==
    [key_code |-> key_code, mods |-> mods, event_type |-> event_type]

\* KeyEvent.shift and KeyEvent.ctrl: bits of mods - 1
shift(ev) == BitSet(ev.mods - 1, 1)

ctrl(ev) == BitSet(ev.mods - 1, 4)

RECURSIVE BitAnd(_, _)
BitAnd(a, b) ==
    IF a = 0 \/ b = 0 THEN 0
    ELSE (a % 2) * (b % 2) + 2 * BitAnd(a \div 2, b \div 2)

\* mutant: the protocol-style test without its mods > 0 guard
CtrlIsDownUnguarded(mods, ctrl_mask) ==
    \/ BitAnd(mods, ctrl_mask) # 0
    \/ BitSet(mods - 1, 4)

ctrl_is_down(mods, ctrl_mask) ==
    \/ BitAnd(mods, ctrl_mask) # 0
    \/ mods > 0 /\ BitSet(mods - 1, 4)

---------------------------------------------------------------------------
(* Preview cache *)

\* mutant: an entry without a timestamp counts as captured just now
PreviewStaleNoDefault(cache, cts, tid, t) ==
    \/ tid \notin DOMAIN cache
    \/ tid \in DOMAIN cts /\ t - cts[tid] >= PREVIEW_REFRESH_MS

_preview_stale(cache, cts, tid, t) ==
    \/ tid \notin DOMAIN cache
    \/ t - (IF tid \in DOMAIN cts THEN cts[tid] ELSE 0) >= PREVIEW_REFRESH_MS

\* append every stale id of ids that is not queued yet, in the order of ids
RECURSIVE EnqueueStale(_, _, _, _, _)
EnqueueStale(q, ids, cache, cts, t) ==
    IF ids = <<>> THEN q
    ELSE EnqueueStale(
            IF _preview_stale(cache, cts, Head(ids), t) /\ Head(ids) \notin Range(q)
            THEN Append(q, Head(ids)) ELSE q,
            Tail(ids), cache, cts, t)

\* _compute_layout's "max_cards": target_cards = max(1, len(self.tabs))
LayoutMaxCards(ts) == Max(1, Len(ts))

_visible_cards(ts, sel, max_cards) ==
    IF Len(ts) <= max_cards THEN ts
    ELSE LET half == max_cards \div 2
             start0 == Max(0, sel - half)
             end == Min(Len(ts), start0 + max_cards)
             start == Max(0, end - max_cards)
         IN  SubSeq(ts, start + 1, end)

\* draw(): the queue after the cards' stale previews were queued.  The 16 ms
\* throttle of draw(force=False) never applies: it is called at the start,
\* when last_draw is 0.0, and after a select() timeout of 50 ms
DrawQueue(q, ts, sel, cache, cts, t) ==
    EnqueueStale(q, TabIds(_visible_cards(ts, sel, LayoutMaxCards(ts))), cache, cts, t)

Neighbourhood(ts, sel) ==
    <<sel, (sel - 1) % Len(ts), (sel + 1) % Len(ts)>>

_schedule_preview_fetch(q, ts, sel, cache, cts, t) ==
    IF Len(ts) = 0 THEN q
    ELSE EnqueueStale(q,
            [i \in 1..3 |-> ts[Neighbourhood(ts, sel)[i] + 1].id], cache, cts, t)

\* _ensure_preview_cache: the neighbourhood's tabs that have no cache entry
EnsureMissing(ts, sel, cache) ==
    IF Len(ts) = 0 THEN {}
    ELSE {ts[Neighbourhood(ts, sel)[i] + 1].id : i \in 1..3} \ DOMAIN cache

Fetched(cache, f) ==
    [tid \in DOMAIN cache \cup DOMAIN f |->
        IF tid \in DOMAIN f THEN f[tid] ELSE cache[tid]]

Stamped(cts, S, t) ==
    [tid \in DOMAIN cts \cup S |-> IF tid \in S THEN t ELSE cts[tid]]

\* PreviewStore.save: an entry without a timestamp is saved as captured now
PreviewPayload(cache, cts, t) ==
    [tid \in DOMAIN cache |->
        [lines |-> cache[tid],
         ts |-> IF tid \in DOMAIN cts THEN cts[tid] ELSE t]]

---------------------------------------------------------------------------
(* Selection and commit *)

\* mutant: the selection is clamped at the ends instead of wrapping round
MoveClamped(sel, n, delta) ==
    IF n = 0 THEN sel ELSE Max(0, Min(n - 1, sel + delta))

_move(sel, n, delta) == IF n = 0 THEN sel ELSE (sel + delta) % n

_current_tab_id(ts, sel) == IF Len(ts) = 0 THEN NoneVal ELSE ts[sel + 1].id

\* mutant: the committed tab moves to the front, the original tab stays put
UpdateMruOrderFrontOnly(order, tab_id, orig) ==
    <<tab_id>> \o SelectSeq(order, LAMBDA x : x # tab_id)

UpdateMruOrder(order, tab_id, orig) ==
    <<tab_id>>
    \o (IF orig # NoneVal /\ orig # tab_id THEN <<orig>> ELSE <<>>)
    \o SelectSeq(order, LAMBDA x : x \notin {tab_id, orig})

\* mutant: every tab of the order gets the commit time as its score
CommitScoresFlat(order, t) == [tid \in Range(order) |-> t]

\* {tid: now - idx * 0.001 for idx, tid in enumerate(order)}: the last idx wins
CommitScores(order, t) ==
    [tid \in Range(order) |->
        t - ((CHOOSE i \in 1..Len(order) :
                order[i] = tid /\ \A j \in 1..Len(order) : order[j] = tid => j <= i) - 1)]

\* mutant: the release commits from exactly the threshold on
ShouldCommitAtThreshold(saw_tab, t, st) ==
    saw_tab \/ (t - st) >= CTRL_RELEASE_MS

_should_commit_on_ctrl_release(saw_tab, t, st) ==
    saw_tab \/ (t - st) > CTRL_RELEASE_MS

---------------------------------------------------------------------------
(* Inputs *)

EventTypes == {1, 2, 3}

\* mods as the keyboard protocol reports them: 1 + shift (1) + ctrl (4)
KeyMods == {1, 2, 5, 6}

\* the events read_key returns: Tab with every modifier, the legacy shift-Tab
\* (ESC [ Z), and Escape, q, a ctrl key, the marker key and another key
KeyEvents ==
    {KeyEvent(TAB_CODE, m, e) : m \in KeyMods, e \in EventTypes}
    \cup {KeyEvent(-TAB_CODE, 2, 1)}
    \cup {KeyEvent(c, 1, e) : c \in {ESC_CODE, Q_CODE, MARKER_KEY_CODE}, e \in EventTypes}
    \cup {KeyEvent(57442, 5, 1), KeyEvent(57442, 5, 2), KeyEvent(57442, 1, 3),
          KeyEvent(57448, 1, 3), KeyEvent(97, 1, 1)}

\* the bytes of "next" and of "prev"
NextBytes == <<110, 101, 120, 116>>

PrevBytes == <<112, 114, 101, 118>>

\* CommandServer.recv: the first 32 bytes of the datagram, decoded as UTF-8
\* with errors="ignore", which drops the bytes that are no valid UTF-8 (of the
\* bytes used here: 255); "" on OSError
recv(data) ==
    SelectSeq(SubSeq(data, 1, Min(Len(data), 32)), LAMBDA b : b < 128)

\* the datagrams on the command channel: "next", "prev", an empty one, "nex",
\* and "next" with a byte 255 in it
Commands ==
    {NextBytes, PrevBytes, <<>>, <<110, 101, 120>>, <<110, 101, 255, 120, 116>>}

\* what the modifier oracle returns: None, or a modifier bit mask
PollMods == {NoneVal, 0, 4}

\* the time select() waited before an input arrived
Delays == {0, TICK_MS}

\* what the host answers to get-text: the call raises, or it returns a
\* status and the captured text.  A preview is "text" (a list of captured
\* lines that is not empty), "empty" (the empty list) or "blank"
\* ([" " * PREVIEW_COLS] * PREVIEW_ROWS, the placeholder)
HostOutcomes == [raises : BOOLEAN, returncode : {0, 1}, stdout : {"", "text"}]

\* str.splitlines(): no line for the empty text
SplitLines(text) == IF text = "" THEN "empty" ELSE "text"

get_text_lines_from_rc(o) ==
    IF o.returncode # 0 THEN "empty" ELSE SplitLines(o.stdout)

\* mutant: _fetch_preview without "if not lines"
FetchPreviewUnchecked(o) ==
    IF o.raises THEN "blank" ELSE get_text_lines_from_rc(o)

_fetch_preview(o) ==
    IF o.raises THEN "blank"
    ELSE IF get_text_lines_from_rc(o) = "empty" THEN "blank"
    ELSE get_text_lines_from_rc(o)

\* what a fetch puts into the cache
FetchResults == {_fetch_preview(o) : o \in HostOutcomes}

\* ids of the host's tabs, in the order the host lists them
HostId(i) == IF i = 1 THEN 5 ELSE IF i = 2 THEN 2 ELSE i + 4

HostList(n, a) == [i \in 1..n |-> TabInfo(HostId(i), i = a, NoneVal)]

\* three tabs, the last one active, the first with a host timestamp later
\* than now
StampedList ==
    [i \in 1..3 |-> TabInfo(HostId(i), i = 3, IF i = 1 THEN FutureScore ELSE NoneVal)]

\* persisted MRU maps of earlier sessions
StoredMap == [tid \in {HostId(1), HostId(2)} |-> IF tid = HostId(1) THEN 5 ELSE 10]

\* persisted previews of every tab, captured at time t
StoredPreviews(ts, t) ==
    [tid \in Range(TabIds(ts)) |-> [lines |-> "text", ts |-> t]]

---------------------------------------------------------------------------
(* Construction: main() and RawSwitcher.__init__ *)

\* the fields as __init__ leaves them, for the host's tabs ts, the loaded
\* MRU map m, the loaded previews pv, direction d and oracle availability o
Fields(ts, m, pv, d, o) ==
    /\ pc = "new"
    /\ state = "Active"
    /\ now = Now0
    /\ direction = d
    /\ hostTabs = ts
    /\ mru = m
    /\ store = m
    /\ tabs = ts
    /\ last_used = EmptyMap
    /\ original_tab_id = NoneVal
    /\ mru_order = <<>>
    /\ selected_index = 0
    /\ ctrl_down = FALSE
    /\ start_time = Now0
    /\ saw_tab_event = FALSE
    /\ ctrl_seen = FALSE
    /\ mod_query = o
    /\ poll_ctrl_seen = FALSE
    /\ any_key_event = FALSE
    /\ ctrl_up_streak = 0
    /\ marker_seen = FALSE
    /\ marker_sent = FALSE
    /\ initial_mods_checked = FALSE
    /\ initial_ctrl_down = FALSE
    /\ preview_cache = [tid \in DOMAIN pv |-> pv[tid].lines]
    /\ preview_cache_ts = [tid \in {x \in DOMAIN pv : pv[x].ts # NoneVal} |-> pv[tid].ts]
    /\ preview_queue = <<>>
    /\ preview_store = pv
    /\ focus = <<>>
    /\ commit_by = "none"

\* a session; no function is under examination
New(ts, m, pv, d, o) ==
    /\ Fields(ts, m, pv, d, o)
    /\ arg = <<>>
    /\ ret = <<>>

sessionVars == <<ctrl_down, saw_tab_event, ctrl_seen,
                 poll_ctrl_seen, any_key_event, ctrl_up_streak, marker_seen,
                 marker_sent, initial_mods_checked, initial_ctrl_down,
                 preview_cache, preview_cache_ts, preview_queue, preview_store,
                 store, focus, commit_by>>

inputVars == <<direction, hostTabs, mru, mod_query, start_time, arg, ret>>

\* self.last_used = self._reconcile_mru(mru), which also reorders self.tabs
Reconcile ==
    /\ pc = "new"
    /\ tabs' = ReconcileTabs(tabs, mru, now)
    /\ last_used' = ReconcileScores(tabs, mru, now)
    /\ pc' = "reconciled"
    /\ UNCHANGED <<state, now, original_tab_id, mru_order, selected_index>>
    /\ UNCHANGED inputVars
    /\ UNCHANGED sessionVars

\* the rest of __init__: original tab, MRU order, initial selection
InitState ==
    /\ pc = "reconciled"
    /\ original_tab_id' = _active_tab_id(tabs)
    /\ last_used' = IF _active_tab_id(tabs) # NoneVal
                    THEN [tid \in DOMAIN last_used \cup {_active_tab_id(tabs)} |->
                            IF tid = _active_tab_id(tabs) THEN now ELSE last_used[tid]]
                    ELSE last_used
    /\ mru_order' = TabIds(tabs)
    /\ selected_index' = _initial_index(tabs, direction)
    /\ pc' = "start"
    /\ UNCHANGED <<state, now, tabs>>
    /\ UNCHANGED inputVars
    /\ UNCHANGED sessionVars

---------------------------------------------------------------------------
(* RawSwitcher.run *)

outcomeVars == <<state, pc, mru_order, last_used, store, focus, commit_by>>

\* commit(), then run() returns
Commit(t, why) ==
    IF _current_tab_id(tabs, selected_index) = NoneVal
    THEN /\ state' = "Cancelled"
         /\ pc' = "done"
         /\ UNCHANGED <<mru_order, last_used, store, focus, commit_by>>
    ELSE /\ mru_order' = UpdateMruOrder(mru_order,
                            _current_tab_id(tabs, selected_index), original_tab_id)
         /\ last_used' = CommitScores(mru_order', t)
         /\ store' = last_used'
         /\ focus' = Append(focus, _current_tab_id(tabs, selected_index))
         /\ commit_by' = why
         /\ state' = "Committed"
         /\ pc' = "done"

\* mutant: cancel() without the return that ends run()
CancelKeepsRunning ==
    /\ state' = "Cancelled"
    /\ UNCHANGED <<pc, mru_order, last_used, store, focus, commit_by>>

\* mutant: cancel() persists the session's MRU map
CancelSavesMru ==
    /\ state' = "Cancelled"
    /\ pc' = "done"
    /\ store' = last_used
    /\ UNCHANGED <<mru_order, last_used, focus, commit_by>>

\* cancel(), then run() returns
Cancel ==
    /\ state' = "Cancelled"
    /\ pc' = "done"
    /\ UNCHANGED <<mru_order, last_used, store, focus, commit_by>>

\* the loop goes on
Continue == UNCHANGED outcomeVars

\* run() up to the loop: _send_marker, _check_initial_mods, draw, _schedule_preview_fetch
RunStart(d, sent, mods) ==
    /\ pc = "start"
    /\ LET t == now + d
           q1 == DrawQueue(preview_queue, tabs, selected_index,
                           preview_cache, preview_cache_ts, t)
       IN  /\ now' = t
           /\ marker_sent' = sent
           /\ initial_mods_checked' = (mod_query /\ mods # NoneVal)
           /\ initial_ctrl_down' =
                (mod_query /\ mods # NoneVal /\ ctrl_is_down(mods, GLFW_MOD_CONTROL))
           /\ preview_queue' = _schedule_preview_fetch(q1, tabs, selected_index,
                                    preview_cache, preview_cache_ts, t)
    /\ pc' = "loop"
    /\ UNCHANGED <<state, mru_order, last_used, store, focus, commit_by>>
    /\ UNCHANGED <<tabs, original_tab_id, selected_index>>
    /\ UNCHANGED inputVars
    /\ UNCHANGED <<ctrl_down, saw_tab_event, ctrl_seen, poll_ctrl_seen,
                   any_key_event, ctrl_up_streak, marker_seen,
                   preview_cache, preview_cache_ts, preview_store>>

\* _move, which fills the neighbourhood's missing previews by blocking
\* fetches (f: the fetched tab -> what the fetch gave), then draw(force=True)
\* and, for a key, _schedule_preview_fetch
MoveAndDraw(delta, t, f, schedule) ==
    LET sel == _move(selected_index, Len(tabs), delta)
        cache1 == Fetched(preview_cache, f)
        cts1 == Stamped(preview_cache_ts, DOMAIN f, t)
        q1 == DrawQueue(preview_queue, tabs, sel, cache1, cts1, t)
    IN  /\ selected_index' = sel
        /\ preview_cache' = cache1
        /\ preview_cache_ts' = cts1
        /\ preview_store' = IF DOMAIN f # {}
                            THEN PreviewPayload(cache1, cts1, t) ELSE preview_store
        /\ preview_queue' = IF schedule
                            THEN _schedule_preview_fetch(q1, tabs, sel, cache1, cts1, t)
                            ELSE q1

NoMove == UNCHANGED <<selected_index, preview_cache, preview_cache_ts,
                      preview_store, preview_queue>>

\* the fetches _move(delta) makes: a result for every missing preview (the
\* fetches of one handler all succeed or all fail)
MoveFetches(delta) ==
    {[tid \in EnsureMissing(tabs, _move(selected_index, Len(tabs), delta),
                            preview_cache) |-> r] : r \in FetchResults}

constructed == <<tabs, original_tab_id, direction, hostTabs, mru, mod_query,
                 start_time, arg, ret, marker_sent, initial_mods_checked, initial_ctrl_down>>

\* mutant: the oracle guard without "self.poll_ctrl_seen and"
CtrlPollGuardUnseen(polled, held, seen, streak) == polled /\ ~held /\ streak >= 2

\* the idle branch's guards, in the order it evaluates them.  The oracle
\* guard, inside "if mods is not None ... else": after the streak was counted
ctrl_poll_guard(polled, held, seen, streak) == polled /\ ~held /\ seen /\ streak >= 2

marker_no_ctrl_guard(down, elapsed) ==
    marker_seen /\ ~down /\ ~saw_tab_event /\ elapsed > MARKER_TIMEOUT_MS

\* mutant: the single-press guard with the no-echo guard's time
InitialCtrlUpGuardLate(elapsed) ==
    /\ ~marker_sent
    /\ initial_mods_checked /\ ~initial_ctrl_down
    /\ ~saw_tab_event /\ ~marker_seen /\ ~ctrl_seen
    /\ elapsed > NO_MARKER_TIMEOUT_MS

initial_ctrl_up_guard(elapsed) ==
    /\ ~marker_sent
    /\ initial_mods_checked /\ ~initial_ctrl_down
    /\ ~saw_tab_event /\ ~marker_seen /\ ~ctrl_seen
    /\ elapsed > INITIAL_UP_TIMEOUT_MS

\* mutant: the no-echo guard one tick late
NoMarkerGuardLate(elapsed) ==
    /\ marker_sent /\ ~any_key_event /\ ~marker_seen
    /\ elapsed > NO_MARKER_TIMEOUT_MS + TICK_MS

no_marker_guard(elapsed) ==
    marker_sent /\ ~any_key_event /\ ~marker_seen /\ elapsed > NO_MARKER_TIMEOUT_MS

\* mutant: the stuck-state guard one tick late
NoTabGuardLate(down, elapsed) ==
    /\ any_key_event /\ ~saw_tab_event /\ ~down
    /\ elapsed > NO_TAB_TIMEOUT_MS + TICK_MS

\* mutant: the stuck-state guard without "not self.saw_tab_event"
NoTabGuardAfterTab(down, elapsed) ==
    any_key_event /\ ~down /\ elapsed > NO_TAB_TIMEOUT_MS

no_tab_guard(down, elapsed) ==
    any_key_event /\ ~saw_tab_event /\ ~down /\ elapsed > NO_TAB_TIMEOUT_MS

\* the loop's idle branch (select timed out) at time t: drain one queued
\* preview, poll the oracle (mods), evaluate the commit guards
\* mutant: a poll that answers "not held" clears the held-flag
PolledDownCleared(down, polled, held) == IF polled THEN held ELSE down

\* ctrl_down after the oracle poll: set when the modifier is reported held,
\* else left alone
PolledDown(down, polled, held) == down \/ held

TickAt(t, res, mods) ==
    /\ pc = "loop"
    /\ LET popped == preview_queue # <<>>
           fetch == /\ popped
                    /\ Head(preview_queue) \in Range(TabIds(tabs))
                    /\ _preview_stale(preview_cache, preview_cache_ts,
                                      Head(preview_queue), t)
           cache1 == IF fetch
                     THEN Fetched(preview_cache, [x \in {Head(preview_queue)} |-> res])
                     ELSE preview_cache
           cts1 == IF fetch
                   THEN Stamped(preview_cache_ts, {Head(preview_queue)}, t)
                   ELSE preview_cache_ts
           q1 == IF popped THEN Tail(preview_queue) ELSE preview_queue
           polled == mod_query /\ mods # NoneVal
           held == polled /\ ctrl_is_down(mods, GLFW_MOD_CONTROL)
           seen1 == poll_ctrl_seen \/ held
           down1 == PolledDown(ctrl_down, polled, held)
           streak1 == IF held THEN 0
                      ELSE IF polled THEN ctrl_up_streak + 1 ELSE ctrl_up_streak
           elapsed == t - start_time
           why == IF ctrl_poll_guard(polled, held, seen1, streak1)
                       THEN "ctrl_poll_commit"
                  ELSE IF marker_no_ctrl_guard(down1, elapsed)
                       THEN "marker_no_ctrl_timeout_commit"
                  ELSE IF initial_ctrl_up_guard(elapsed)
                       THEN "initial_ctrl_up_commit"
                  ELSE IF no_marker_guard(elapsed)
                       THEN "no_marker_timeout_commit"
                  ELSE IF no_tab_guard(down1, elapsed)
                       THEN "no_tab_timeout_commit"
                  ELSE "none"
       IN  /\ now' = t
           /\ preview_cache' = cache1
           /\ preview_cache_ts' = cts1
           /\ preview_store' = IF fetch THEN PreviewPayload(cache1, cts1, t)
                               ELSE preview_store
           /\ preview_queue' = IF fetch
                               THEN DrawQueue(q1, tabs, selected_index, cache1, cts1, t)
                               ELSE q1
           /\ poll_ctrl_seen' = seen1
           /\ ctrl_down' = down1
           /\ ctrl_up_streak' = streak1
           /\ IF why # "none" THEN Commit(t, why) ELSE Continue
    /\ UNCHANGED <<selected_index, saw_tab_event, ctrl_seen, any_key_event, marker_seen>>
    /\ UNCHANGED constructed

\* an idle tick, TICK_MS after the handler before it
Tick(res, mods) ==
    /\ now + TICK_MS - start_time <= MaxElapsed
    /\ TickAt(now + TICK_MS, res, mods)

\* the loop's command branch: a datagram on the command channel, read at
\* time t
CommandAt(cmd, t) ==
    /\ pc = "loop"
    /\ now' = t
    /\ IF recv(cmd) \in {NextBytes, PrevBytes}
       THEN \E f \in MoveFetches(IF recv(cmd) = PrevBytes THEN -1 ELSE 1) :
                MoveAndDraw(IF recv(cmd) = PrevBytes THEN -1 ELSE 1, t, f, FALSE)
       ELSE NoMove
    /\ Continue
    /\ UNCHANGED <<ctrl_down, saw_tab_event, ctrl_seen, poll_ctrl_seen,
                   any_key_event, ctrl_up_streak, marker_seen>>
    /\ UNCHANGED constructed

\* a datagram on the command channel, d ms into the wait
Command(cmd, d) ==
    /\ now + d - start_time <= MaxElapsed
    /\ CommandAt(cmd, now + d)

\* mutant: Escape cancels on every event type
KeyBranchEscAnyType(ev, saw_tab, t, st) ==
    IF ev.key_code = MARKER_KEY_CODE /\ ev.event_type = 1 THEN "marker_seen"
    ELSE IF ev.key_code = MARKER_KEY_CODE /\ ev.event_type = 3 THEN "marker_release"
    ELSE IF /\ ev.key_code \in CTRL_KEY_CODES /\ ev.event_type = 3
            /\ _should_commit_on_ctrl_release(saw_tab, t, st)
         THEN "ctrl_release_commit"
    ELSE IF ev.key_code = ESC_CODE THEN "cancel_esc"
    ELSE IF ev.key_code = TAB_CODE /\ ev.event_type \in {1, 2} THEN "tab_key"
    ELSE IF ev.key_code = -TAB_CODE THEN "legacy_shift_tab"
    ELSE IF ev.key_code = Q_CODE /\ ev.event_type = 1 THEN "quit_q"
    ELSE "none"

\* which branch of the key handler an event takes (the log message it writes)
KeyBranch(ev, saw_tab, t, st) ==
    IF ev.key_code = MARKER_KEY_CODE /\ ev.event_type = 1 THEN "marker_seen"
    ELSE IF ev.key_code = MARKER_KEY_CODE /\ ev.event_type = 3 THEN "marker_release"
    ELSE IF /\ ev.key_code \in CTRL_KEY_CODES /\ ev.event_type = 3
            /\ _should_commit_on_ctrl_release(saw_tab, t, st)
         THEN "ctrl_release_commit"
    ELSE IF ev.key_code = ESC_CODE /\ ev.event_type = 1 THEN "cancel_esc"
    ELSE IF ev.key_code = TAB_CODE /\ ev.event_type \in {1, 2} THEN "tab_key"
    ELSE IF ev.key_code = -TAB_CODE THEN "legacy_shift_tab"
    ELSE IF ev.key_code = Q_CODE /\ ev.event_type = 1 THEN "quit_q"
    ELSE "none"

\* the direction a cycle key moves the selection
KeyDelta(ev) == IF ev.key_code = -TAB_CODE \/ shift(ev) THEN -1 ELSE 1

\* the loop's key branch: a key event read from stdin at time t
KeyAt(ev, t) ==
    /\ pc = "loop"
    /\ LET br == KeyBranch(ev, saw_tab_event, t, start_time)
           marker == br \in {"marker_seen", "marker_release"}
           isCtrl == ~marker /\ ev.key_code \in CTRL_KEY_CODES
           moves == br \in {"tab_key", "legacy_shift_tab"}
       IN  /\ now' = t
           /\ any_key_event' = TRUE
           /\ marker_seen' = (marker_seen \/ br = "marker_seen")
           /\ ctrl_seen' = (ctrl_seen \/ br = "marker_seen"
                                      \/ (isCtrl /\ ev.event_type = 1))
           /\ ctrl_down' = IF br = "marker_seen" THEN TRUE
                           ELSE IF br = "marker_release" THEN FALSE
                           ELSE IF isCtrl /\ ev.event_type = 1 THEN TRUE
                           ELSE IF isCtrl /\ ev.event_type = 3 THEN FALSE
                           ELSE IF br = "tab_key" /\ ctrl(ev) THEN TRUE
                           ELSE ctrl_down
           /\ saw_tab_event' = (saw_tab_event \/ moves)
           /\ IF moves
              THEN \E f \in MoveFetches(KeyDelta(ev)) :
                       MoveAndDraw(KeyDelta(ev), t, f, TRUE)
              ELSE NoMove
           /\ IF br = "ctrl_release_commit" THEN Commit(t, "ctrl_release_commit")
              ELSE IF br \in {"cancel_esc", "quit_q"} THEN Cancel
              ELSE Continue
    /\ UNCHANGED <<poll_ctrl_seen, ctrl_up_streak>>
    /\ UNCHANGED constructed

\* a key event read from stdin, d ms into the wait
Key(ev, d) ==
    /\ now + d - start_time <= MaxElapsed
    /\ KeyAt(ev, now + d)

---------------------------------------------------------------------------
(* The key decoder: read_key and parse_csi_u *)

\* what a call gives: a value, None, or an exception
Returned(v) == [kind |-> "value", value |-> v]

ReturnedNone == [kind |-> "none", value |-> NoneVal]

Raised == [kind |-> "raise", value |-> NoneVal]

\* not called yet
Pending == [kind |-> "pending", value |-> NoneVal]

IsDigit(b) == b \in 48..57

\* the value of a sequence of decimal digits
RECURSIVE DigitsValue(_)
DigitsValue(ds) ==
    IF ds = <<>> THEN 0
    ELSE 10 * DigitsValue(SubSeq(ds, 1, Len(ds) - 1)) + (ds[Len(ds)] - 48)

\* str.strip() for the one whitespace byte used here, the space
RECURSIVE Strip(_)
Strip(t) ==
    IF t # <<>> /\ t[1] = 32 THEN Strip(Tail(t))
    ELSE IF t # <<>> /\ t[Len(t)] = 32 THEN Strip(SubSeq(t, 1, Len(t) - 1))
    ELSE t

\* int(text): surrounding whitespace, an optional sign, then decimal digits;
\* anything else is a ValueError
PyInt(text) ==
    LET t == Strip(text)
        signed == t # <<>> /\ t[1] \in {43, 45}
        ds == IF signed THEN Tail(t) ELSE t
    IN  IF ds = <<>> \/ \E i \in 1..Len(ds) : ~IsDigit(ds[i]) THEN Raised
        ELSE Returned(IF signed /\ t[1] = 45 THEN 0 - DigitsValue(ds)
                      ELSE DigitsValue(ds))

\* the index of the first byte sep in text, 0 if there is none
IndexOf(text, sep) ==
    IF \E i \in 1..Len(text) : text[i] = sep
    THEN CHOOSE i \in 1..Len(text) :
            text[i] = sep /\ \A j \in 1..(i - 1) : text[j] # sep
    ELSE 0

\* text.split(sep)[0]
BeforeSep(text, sep) ==
    IF IndexOf(text, sep) = 0 THEN text
    ELSE SubSeq(text, 1, IndexOf(text, sep) - 1)

\* the text after the first sep (text.split(sep, 1)[1]); sep is in text
AfterSep(text, sep) == SubSeq(text, IndexOf(text, sep) + 1, Len(text))

\* bytes.decode("ascii", "ignore"): the bytes that are not ASCII are dropped
DecodeAscii(bs) == SelectSeq(bs, LAMBDA b : b < 128)

\* mutant: a parser that knows no event type: every event is a press
ParseCsiUPressOnly(buf) ==
    LET payload == DecodeAscii(SubSeq(buf, 3, Len(buf) - 1))
        key_text == BeforeSep(BeforeSep(payload, 59), 58)
        mod_field == IF IndexOf(payload, 59) # 0
                     THEN BeforeSep(AfterSep(payload, 59), 59) ELSE <<>>
        mods_str == BeforeSep(mod_field, 58)
    IN  IF payload = <<>> THEN ReturnedNone
        ELSE Returned(KeyEvent(IF key_text = <<>> THEN 0 ELSE DigitsValue(key_text),
                               IF mods_str = <<>> THEN 1 ELSE DigitsValue(mods_str),
                               1))

parse_csi_u(buf) ==
    LET payload == DecodeAscii(SubSeq(buf, 3, Len(buf) - 1))
        key_field == BeforeSep(payload, 59)
        key_text == BeforeSep(key_field, 58)
        key_code == IF key_text = <<>> THEN Returned(0) ELSE PyInt(key_text)
        has_mods == IndexOf(payload, 59) # 0
        mod_field == IF has_mods THEN BeforeSep(AfterSep(payload, 59), 59) ELSE <<>>
        mods_str == BeforeSep(mod_field, 58)
        ev_str == IF IndexOf(mod_field, 58) # 0 THEN AfterSep(mod_field, 58) ELSE <<>>
        mods == IF mod_field = <<>> THEN Returned(1)
                ELSE IF IndexOf(mod_field, 58) # 0
                     THEN (IF mods_str # <<>> THEN PyInt(mods_str) ELSE Returned(1))
                ELSE PyInt(mod_field)
        event_type == IF ev_str # <<>> THEN PyInt(ev_str) ELSE Returned(1)
    IN  IF payload = <<>> THEN ReturnedNone
        ELSE IF key_code.kind = "raise" \/ mods.kind = "raise"
                \/ event_type.kind = "raise" THEN Raised
        ELSE Returned(KeyEvent(key_code.value, mods.value, event_type.value))

\* a final byte of a CSI sequence
IsFinal(b) == b >= 64 /\ b <= 126

\* the bytes read_key accumulates from the bytes bs that arrive (nothing more
\* arrives after them: end of file, or no byte within the 10 ms timeout):
\* up to the first final byte after ESC [, at most 65 bytes
CsiBuffer(bs) ==
    LET finals == {i \in 3..Len(bs) : IsFinal(bs[i])}
        stop == IF finals = {} THEN Len(bs)
                ELSE CHOOSE i \in finals : \A j \in finals : i <= j
    IN  SubSeq(bs, 1, Min(stop, 65))

\* mutant: a sequence of no known form is dropped, not read as Escape
KeyOfBufferDropsUnknown(buf) ==
    LET last == buf[Len(buf)]
        params == Strip(DecodeAscii(SubSeq(buf, 3, Len(buf) - 1)))
    IN  IF last = 90 THEN Returned(KeyEvent(-TAB_CODE, 2, 1))
        ELSE IF last = 73 THEN Returned(KeyEvent(TAB_CODE, 1, 1))
        ELSE IF last = 126 /\ params = <<57>>
             THEN Returned(KeyEvent(TAB_CODE, 1, 1))
        ELSE IF last = 126 /\ params = <<50, 52>>
             THEN Returned(KeyEvent(MARKER_KEY_CODE, 1, 1))
        ELSE IF last # 117 THEN ReturnedNone
        ELSE parse_csi_u(buf)

\* what read_key makes of the buffer once the loop has ended
KeyOfBuffer(buf) ==
    LET last == buf[Len(buf)]
        params == Strip(DecodeAscii(SubSeq(buf, 3, Len(buf) - 1)))
    IN  IF last = 90 THEN Returned(KeyEvent(-TAB_CODE, 2, 1))
        ELSE IF last = 73 THEN Returned(KeyEvent(TAB_CODE, 1, 1))
        ELSE IF last = 126 /\ params = <<57>>
             THEN Returned(KeyEvent(TAB_CODE, 1, 1))
        ELSE IF last = 126 /\ params = <<50, 52>>
             THEN Returned(KeyEvent(MARKER_KEY_CODE, 1, 1))
        ELSE IF last # 117 THEN Returned(KeyEvent(ESC_CODE, 1, 1))
        ELSE parse_csi_u(buf)

read_key(bs) ==
    IF bs = <<>> THEN ReturnedNone
    ELSE IF bs[1] = 9 THEN Returned(KeyEvent(TAB_CODE, 1, 1))
    ELSE IF bs[1] # 27 THEN Returned(KeyEvent(bs[1], 1, 1))
    ELSE IF Len(bs) < 2 \/ bs[2] # 91 THEN Returned(KeyEvent(ESC_CODE, 1, 1))
    ELSE KeyOfBuffer(CsiBuffer(bs))

\* the threshold of "if len(buf) > 64: break"
BUF_CAP == 64

\* mutant: the loop without the length test
CapNeverReached(buf) == FALSE

CapReached(buf) == Len(buf) > BUF_CAP

---------------------------------------------------------------------------
(* The persisted stores: StateStore and PreviewStore *)

\* JSON values
JNull == [t |-> "null", v |-> 0]

JNum(n) == [t |-> "number", v |-> n]

JStr(s) == [t |-> "string", v |-> s]

JList(seq) == [t |-> "list", v |-> seq]

JObj(f) == [t |-> "object", v |-> f]

\* str(self.pid) and str(self.os_window_id)
PidKey == "77"

OswKey == "1"

\* int(text) for the texts stored here: "5", "2", "7" and "8" are tab ids,
\* "10" a score
IntOfText(s) ==
    CASE s = "5" -> Returned(5)
      [] s = "2" -> Returned(2)
      [] s = "7" -> Returned(7)
      [] s = "8" -> Returned(8)
      [] s = "10" -> Returned(10)
      [] OTHER -> Raised

\* int(x) and float(x) of a JSON value: a number, or a string that holds one
NumberOf(x) ==
    IF x.t = "number" THEN Returned(x.v)
    ELSE IF x.t = "string" THEN IntOfText(x.v)
    ELSE Raised

\* "key in data": membership in a dict's keys, in a list's items, or as a
\* substring of a string (the strings stored here hold the key only when
\* they are the key); a TypeError for a number or null
KeyIn(key, data) ==
    CASE data.t = "object" -> Returned(key \in DOMAIN data.v)
      [] data.t = "list" -> Returned(\E i \in 1..Len(data.v) : data.v[i] = JStr(key))
      [] data.t = "string" -> Returned(data.v = key)
      [] OTHER -> Raised

\* data.get(key, {}): an AttributeError unless data is a dict
GetOr(data, key) ==
    IF data.t # "object" THEN Raised
    ELSE Returned(IF key \in DOMAIN data.v THEN data.v[key] ELSE JObj(EmptyMap))

\* what json.load gives for a file: None of it when the file cannot be read
\* or holds no JSON
Parsed(file) == IF file.kind = "json" THEN Returned(file.data) ELSE Raised

\* the legacy list of tab ids: out[int(tid)] = now - idx, the last idx wins
ScoresOfList(items, t) ==
    LET ok == {i \in 1..Len(items) : NumberOf(items[i]).kind = "value"}
        ids == {NumberOf(items[i]).value : i \in ok}
    IN  [tid \in ids |->
            t - ((CHOOSE i \in ok : /\ NumberOf(items[i]).value = tid
                                    /\ \A j \in ok : NumberOf(items[j]).value = tid
                                                        => j <= i) - 1)]

\* the dict of scores: out[int(k)] = float(v), entries that do not convert
\* are skipped
ScoresOfDict(f) ==
    LET ok == {k \in DOMAIN f : /\ IntOfText(k).kind = "value"
                                /\ NumberOf(f[k]).kind = "value"}
    IN  [tid \in {IntOfText(k).value : k \in ok} |->
            NumberOf(f[CHOOSE k \in ok : IntOfText(k).value = tid]).value]

\* StateStore.load at time t
StateStore_load(file, t) ==
    IF file.kind = "missing" THEN Returned(EmptyMap)
    ELSE IF Parsed(file).kind = "raise" THEN Returned(EmptyMap)
    ELSE LET data == Parsed(file).value
             has == KeyIn(PidKey, data)
             entry == GetOr(data, PidKey)
             raw == GetOr(entry.value, OswKey)
         IN  IF has.kind = "raise" THEN Raised
             ELSE IF ~has.value THEN Returned(EmptyMap)
             ELSE IF entry.kind = "raise" THEN Raised
             ELSE IF raw.kind = "raise" THEN Raised
             ELSE IF raw.value.t = "list"
                  THEN Returned(ScoresOfList(raw.value.v, t))
             ELSE IF raw.value.t = "object"
                  THEN Returned(ScoresOfDict(raw.value.v))
             ELSE Returned(EmptyMap)

\* the file a save writes: data with payload stored under the process and
\* the group; an AttributeError (setdefault) unless data is a dict, a
\* TypeError (item assignment) unless the process's entry is one
StoredAt(file, osw, payload) ==
    LET data == IF file.kind = "missing" \/ Parsed(file).kind = "raise"
                THEN JObj(EmptyMap) ELSE Parsed(file).value
        entry == IF PidKey \in DOMAIN data.v THEN data.v[PidKey] ELSE JObj(EmptyMap)
    IN  IF data.t # "object" THEN Raised
        ELSE IF entry.t # "object" THEN Raised
        ELSE Returned(
                [kind |-> "json",
                 data |-> JObj([k \in DOMAIN data.v \cup {PidKey} |->
                            IF k = PidKey
                            THEN JObj([g \in DOMAIN entry.v \cup {osw} |->
                                        IF g = osw THEN payload ELSE entry.v[g]])
                            ELSE data.v[k]])])

\* the save of this session's store
Stored(file, payload) == StoredAt(file, OswKey, payload)

\* str(tid) of a tab id
TextOfInt(n) == CHOOSE s \in {"5", "2", "7", "8"} : IntOfText(s).value = n

\* StateStore.save: {str(k): float(v) for k, v in last_used.items()}
ScoresPayload(lu) ==
    JObj([k \in {TextOfInt(tid) : tid \in DOMAIN lu} |-> JNum(lu[IntOfText(k).value])])

StateStore_save(file, lu) == Stored(file, ScoresPayload(lu))

\* the entries of a preview dict that load keeps: a list of strings under
\* "lines", or a bare list of strings
PreviewLines(x) ==
    IF x.t = "object" /\ "lines" \in DOMAIN x.v THEN x.v["lines"]
    ELSE IF x.t = "object" THEN JNull
    ELSE x

IsLines(x) == x.t = "list" /\ \A i \in 1..Len(x.v) : x.v[i].t = "string"

NoPreviews == [lines |-> EmptyMap, ts |-> EmptyMap]

\* PreviewStore.load: the previews kept, and the capture times of those that
\* have one
PreviewStore_load(file) ==
    IF file.kind = "missing" THEN Returned(NoPreviews)
    ELSE IF Parsed(file).kind = "raise" THEN Returned(NoPreviews)
    ELSE LET data == Parsed(file).value
             entry == GetOr(data, PidKey)
             raw == GetOr(entry.value, OswKey)
         IN  IF entry.kind = "raise" THEN Raised
             ELSE IF raw.kind = "raise" THEN Raised
             ELSE IF raw.value.t # "object" THEN Returned(NoPreviews)
             ELSE LET f == raw.value.v
                      kept == {k \in DOMAIN f : /\ IntOfText(k).kind = "value"
                                                /\ IsLines(PreviewLines(f[k]))}
                      timed == {k \in kept : /\ f[k].t = "object"
                                             /\ "ts" \in DOMAIN f[k].v
                                             /\ f[k].v["ts"].t = "number"}
                  IN  Returned(
                        [lines |-> [tid \in {IntOfText(k).value : k \in kept} |->
                                        PreviewLines(f[TextOfInt(tid)]).v],
                         ts |-> [tid \in {IntOfText(k).value : k \in timed} |->
                                        f[TextOfInt(tid)].v["ts"].v]])

\* PreviewStore.save: {"lines": v, "ts": timestamps.get(k, now)} for every
\* preview
PreviewsPayload(previews, timestamps, t) ==
    JObj([k \in {TextOfInt(tid) : tid \in DOMAIN previews} |->
            JObj([fld \in {"lines", "ts"} |->
                    IF fld = "lines"
                    THEN JList(previews[IntOfText(k).value])
                    ELSE JNum(IF IntOfText(k).value \in DOMAIN timestamps
                              THEN timestamps[IntOfText(k).value] ELSE t)])])

PreviewStore_save(file, previews, timestamps, t) ==
    Stored(file, PreviewsPayload(previews, timestamps, t))

---------------------------------------------------------------------------
(* main and list_tabs *)

\* an OS window of the listing: a dict with an id and, when given, its tabs
OsWindow(id, ts) == JObj([k \in {"id", "tabs"} |-> IF k = "id" THEN JNum(id) ELSE JList(ts)])

\* a tab of the listing, with the ids of its windows
HostTab(id, is_active, windows) == [id |-> id, is_active |-> is_active, windows |-> windows]

\* os_window.get("tabs", [])
TabsOfWindow(w) == IF "tabs" \in DOMAIN w.v THEN w.v["tabs"].v ELSE <<>>

\* os_window.get("id", 0)
IdOfWindow(w) == IF "id" \in DOMAIN w.v THEN w.v["id"].v ELSE 0

\* parse_tabs: one TabInfo per listed tab; the tab that holds the current
\* window counts as active
parse_tabs(ts, active_tab_id) ==
    [i \in 1..Len(ts) |->
        TabInfo(ts[i].id, ts[i].id = active_tab_id \/ ts[i].is_active, NoneVal)]

\* list_tabs: (0, []) when "ls" raises, exits non-zero or prints no JSON; the
\* OS window that holds the current window, else the first one; an exception
\* out of the loop when the JSON is not a list of dicts
list_tabs(ls, cur) ==
    IF ls.raises \/ ls.returncode # 0 \/ ~ls.json THEN Returned(<<0, <<>>>>)
    ELSE IF ls.data.t \in {"number", "null"} THEN Raised
    ELSE IF ls.data.t = "object"
         THEN IF DOMAIN ls.data.v = {} THEN Returned(<<0, <<>>>>) ELSE Raised
    ELSE LET data == ls.data.v
             holds(i) == /\ data[i].t = "object"
                         /\ \E j \in 1..Len(TabsOfWindow(data[i])) :
                                cur \in TabsOfWindow(data[i])[j].windows
             stops == {i \in 1..Len(data) : data[i].t # "object" \/ holds(i)}
             first == CHOOSE i \in stops : \A k \in stops : i <= k
         IN  IF stops # {}
             THEN IF data[first].t # "object" THEN Raised
                  ELSE LET ts == TabsOfWindow(data[first])
                           j == CHOOSE x \in 1..Len(ts) :
                                   /\ cur \in ts[x].windows
                                   /\ \A y \in 1..(x - 1) : cur \notin ts[y].windows
                       IN  Returned(<<IdOfWindow(data[first]), parse_tabs(ts, ts[j].id)>>)
             ELSE IF data # <<>>
                  THEN Returned(<<IdOfWindow(data[1]),
                                  parse_tabs(TabsOfWindow(data[1]), NoneVal)>>)
                  ELSE Returned(<<0, <<>>>>)

\* try_send_command: True when the group's socket exists and the send works
try_send_command(os_window_id, peers, send_ok) == os_window_id \in peers /\ send_ok

\* mutant: main without "if not tabs: return"
MainListedNoCheck(r) == IF r.kind = "raise" THEN "raised" ELSE "sending"

\* main after list_tabs: where it goes on
MainListed(r) ==
    IF r.kind = "raise" THEN "raised"
    ELSE IF r.value[2] = <<>> THEN "exited"
    ELSE "sending"

---------------------------------------------------------------------------
(* preview_gen: render_block_preview and its downsampling *)

\* the characters str.strip() removes, of those used here
Whitespace == {" ", "\t"}

\* "if lines[idx].strip()" is false: the row holds whitespace only
IsBlankRow(row) == \A i \in 1..Len(row) : row[i] \in Whitespace

\* for idx in range(len(lines) - 1, -1, -1): the first non-blank row met,
\* counted from 1; 0 when the loop ends without one
RECURSIVE LastContentRow(_, _)
LastContentRow(lines, idx) ==
    IF idx = 0 THEN 0
    ELSE IF ~IsBlankRow(lines[idx]) THEN idx
    ELSE LastContentRow(lines, idx - 1)

\* mutant: the trim without its "min(len(lines), 1)" fallback
ContentRowsNoFallback(lines) == LastContentRow(lines, Len(lines))

\* content_rows of render_block_preview, and _content_row_count_cells
content_rows(lines) ==
    IF LastContentRow(lines, Len(lines)) # 0 THEN LastContentRow(lines, Len(lines))
    ELSE Min(Len(lines), 1)

\* effective_rows = min(content_rows, rows * 2)
effective_rows(lines, rows) == Min(content_rows(lines), rows * 2)

\* FILL_THRESHOLD = 0.2 and COLOR_THRESHOLD = 0.35, as fractions
FILL_THRESHOLD_NUM == 1

FILL_THRESHOLD_DEN == 5

COLOR_THRESHOLD_NUM == 7

COLOR_THRESHOLD_DEN == 20

\* max(len(line) for line in lines), then max(max_len, 1)
RECURSIVE MaxLineLen(_)
MaxLineLen(lines) ==
    IF lines = <<>> THEN 0 ELSE Max(Len(Head(lines)), MaxLineLen(Tail(lines)))

max_len(lines) == Max(MaxLineLen(lines), 1)

\* lines[sr].ljust(max_len)
Ljust(line, width) ==
    [i \in 1..Max(Len(line), width) |-> IF i <= Len(line) THEN line[i] ELSE " "]

\* r0 = int(r * src_rows / rows), and c0 alike: the quotient is not negative
\* and far below 2^53, so int() of it is the floor
Lo(k, src, n) == (k * src) \div n

\* mutant: the upper edge without "if r1 <= r0: r1 = min(src_rows, r0 + 1)"
HiNoFix(k, src, n) == ((k + 1) * src) \div n

\* r1 = int((r + 1) * src_rows / rows); if r1 <= r0: r1 = min(src_rows, r0 + 1)
Hi(k, src, n) ==
    IF ((k + 1) * src) \div n <= Lo(k, src, n)
    THEN Min(src, Lo(k, src, n) + 1)
    ELSE ((k + 1) * src) \div n

\* the loops over range(r0, r1) and range(c0, c1) of output cell (r, c):
\* total counts every cell met, filled those that are no space
SubRect(lines, cols, rows, r, c) ==
    {<<sr, sc>> : sr \in Lo(r, Len(lines), rows)..(Hi(r, Len(lines), rows) - 1),
                  sc \in Lo(c, max_len(lines), cols)..(Hi(c, max_len(lines), cols) - 1)}

MaskTotal(lines, cols, rows, r, c) == Cardinality(SubRect(lines, cols, rows, r, c))

MaskFilled(lines, cols, rows, r, c) ==
    Cardinality({p \in SubRect(lines, cols, rows, r, c) :
        /\ p[2] < Len(Ljust(lines[p[1] + 1], max_len(lines)))
        /\ Ljust(lines[p[1] + 1], max_len(lines))[p[2] + 1] # " "})

\* filled / max(total, 1) >= FILL_THRESHOLD, FILL_THRESHOLD = 0.2 = 1/5: the
\* quotient of two small integers is rounded to the double nearest to it, and
\* 0.2 is the double nearest to 1/5
AtLeastFillThreshold(filled, total) ==
    filled * FILL_THRESHOLD_DEN >= FILL_THRESHOLD_NUM * Max(total, 1)

\* downsample_mask: rows of cols booleans (row r, column c at [r + 1][c + 1])
downsample_mask(lines, cols, rows) ==
    IF rows <= 0 \/ cols <= 0 THEN <<>>
    ELSE IF lines = <<>> THEN [r \in 1..rows |-> [c \in 1..cols |-> FALSE]]
    ELSE [r \in 1..rows |-> [c \in 1..cols |->
            /\ MaskFilled(lines, cols, rows, r - 1, c - 1) > 0
            /\ AtLeastFillThreshold(MaskFilled(lines, cols, rows, r - 1, c - 1),
                                    MaskTotal(lines, cols, rows, r - 1, c - 1))]]

\* a cell of a parsed ANSI line: (ch, fg, bg); NoColor stands for None
NoColor == <<>>

Cell(ch, fg, bg) == <<ch, fg, bg>>

\* "ch, fg, bg = line[sc]" or, past the end of the line, " ", None, None
CellAt(lines, sr, sc) ==
    IF sc < Len(lines[sr + 1]) THEN lines[sr + 1][sc + 1] ELSE Cell(" ", NoColor, NoColor)

\* the cells of output cell (r, c)'s sub-rectangle in the order the loops
\* meet them: for sr in range(r0, r1): for sc in range(c0, c1)
ScanCells(lines, cols, rows, r, c) ==
    LET r0 == Lo(r, Len(lines), rows)
        r1 == Hi(r, Len(lines), rows)
        c0 == Lo(c, max_len(lines), cols)
        c1 == Hi(c, max_len(lines), cols)
    IN  [k \in 1..((r1 - r0) * (c1 - c0)) |->
            CellAt(lines, r0 + ((k - 1) \div (c1 - c0)), c0 + ((k - 1) % (c1 - c0)))]

\* fg_counts[fg] and bg_counts[bg] after the loops
FgCount(cells, color) ==
    Cardinality({k \in 1..Len(cells) : cells[k][1] # " " /\ cells[k][2] = color})

BgCount(cells, color) == Cardinality({k \in 1..Len(cells) : cells[k][3] = color})

FgColors(cells) == {cells[k][2] : k \in {i \in 1..Len(cells) :
                        cells[i][1] # " " /\ cells[i][2] # NoColor}}

BgColors(cells) == {cells[k][3] : k \in {i \in 1..Len(cells) : cells[i][3] # NoColor}}

\* where a color enters fg_counts / bg_counts: dicts keep insertion order
FgFirstSeen(cells, color) ==
    CHOOSE k \in 1..Len(cells) :
        /\ cells[k][1] # " " /\ cells[k][2] = color
        /\ \A j \in 1..(k - 1) : ~(cells[j][1] # " " /\ cells[j][2] = color)

BgFirstSeen(cells, color) ==
    CHOOSE k \in 1..Len(cells) :
        /\ cells[k][3] = color
        /\ \A j \in 1..(k - 1) : cells[j][3] # color

\* max(fg_counts.items(), key=lambda kv: kv[1])[0]: the first of the colors
\* with the greatest count
MaxFg(cells) ==
    CHOOSE x \in FgColors(cells) :
        \A y \in FgColors(cells) :
            \/ FgCount(cells, x) > FgCount(cells, y)
            \/ /\ FgCount(cells, x) = FgCount(cells, y)
               /\ FgFirstSeen(cells, x) <= FgFirstSeen(cells, y)

MaxBg(cells) ==
    CHOOSE x \in BgColors(cells) :
        \A y \in BgColors(cells) :
            \/ BgCount(cells, x) > BgCount(cells, y)
            \/ /\ BgCount(cells, x) = BgCount(cells, y)
               /\ BgFirstSeen(cells, x) <= BgFirstSeen(cells, y)

\* mutant: the foreground attributed whatever the colored fraction
ColorThresholdIgnored(colored, filled) == TRUE

\* (colored / max(filled, 1)) >= COLOR_THRESHOLD, COLOR_THRESHOLD = 0.35 = 7/20
AtLeastColorThreshold(colored, filled) ==
    colored * COLOR_THRESHOLD_DEN >= COLOR_THRESHOLD_NUM * Max(filled, 1)

\* one output cell of _downsample_color from the cells of its sub-rectangle;
\* (colored / max(total, 1)) >= COLOR_TOTAL_THRESHOLD = 0.0 always holds
ColorCell(cells) ==
    LET total == Len(cells)
        filled == Cardinality({k \in 1..Len(cells) : cells[k][1] # " "})
        colored == Cardinality({k \in 1..Len(cells) :
                        cells[k][1] # " " /\ cells[k][2] # NoColor})
        bg_filled == Cardinality({k \in 1..Len(cells) : cells[k][3] # NoColor})
    IN  IF (filled > 0 /\ AtLeastFillThreshold(filled, total)) \/ bg_filled > 0
        THEN [filled |-> TRUE,
              fg |-> IF FgColors(cells) # {} /\ AtLeastColorThreshold(colored, filled)
                     THEN MaxFg(cells) ELSE NoColor,
              bg |-> IF BgColors(cells) # {} THEN MaxBg(cells) ELSE NoColor]
        ELSE [filled |-> FALSE, fg |-> NoColor, bg |-> NoColor]

\* _downsample_color: rows of cols cells (row r, column c at [r + 1][c + 1])
_downsample_color(lines, cols, rows) ==
    IF rows <= 0 \/ cols <= 0 THEN <<>>
    ELSE IF lines = <<>>
         THEN [r \in 1..rows |-> [c \in 1..cols |->
                    [filled |-> FALSE, fg |-> NoColor, bg |-> NoColor]]]
    ELSE [r \in 1..rows |-> [c \in 1..cols |->
            ColorCell(ScanCells(lines, cols, rows, r - 1, c - 1))]]

---------------------------------------------------------------------------
(* preview_gen: parse_ansi_lines, the SGR sequences *)

_ansi_8_color(code) ==
    CASE code = 30 -> <<0, 0, 0>>
      [] code = 31 -> <<205, 49, 49>>
      [] code = 32 -> <<13, 188, 121>>
      [] code = 33 -> <<229, 229, 16>>
      [] code = 34 -> <<36, 114, 200>>
      [] code = 35 -> <<188, 63, 188>>
      [] code = 36 -> <<17, 168, 205>>
      [] code = 37 -> <<229, 229, 229>>
      [] code = 90 -> <<102, 102, 102>>
      [] code = 91 -> <<241, 76, 76>>
      [] code = 92 -> <<35, 209, 139>>
      [] code = 93 -> <<245, 245, 67>>
      [] code = 94 -> <<59, 142, 234>>
      [] code = 95 -> <<214, 112, 214>>
      [] code = 96 -> <<41, 184, 219>>
      [] code = 97 -> <<229, 229, 229>>
      [] OTHER -> NoColor

Level(n) == IF n = 0 THEN 0 ELSE 55 + n * 40

_ansi_256_color(code) ==
    IF code < 0 \/ code > 255 THEN NoColor
    ELSE IF code < 16
         THEN (IF _ansi_8_color(30 + code) # NoColor THEN _ansi_8_color(30 + code)
               ELSE _ansi_8_color(90 + (code - 8)))
    ELSE IF code <= 231
         THEN <<Level(((code - 16) \div 36) % 6), Level(((code - 16) \div 6) % 6),
                Level((code - 16) % 6)>>
    ELSE <<8 + (code - 232) * 10, 8 + (code - 232) * 10, 8 + (code - 232) * 10>>

\* [p for p in seq.split(";") if p != ""], each split again at ":": the
\* runs of seq between the bytes ';' and ':' that are not empty
RECURSIVE SplitParts(_, _)
SplitParts(seq, cur) ==
    IF seq = <<>> THEN (IF cur = <<>> THEN <<>> ELSE <<cur>>)
    ELSE IF Head(seq) \in {58, 59}
         THEN (IF cur = <<>> THEN <<>> ELSE <<cur>>) \o SplitParts(Tail(seq), <<>>)
    ELSE SplitParts(Tail(seq), Append(cur, Head(seq)))

\* str.isdigit() of an ASCII text
IsDigits(text) == text # <<>> /\ \A i \in 1..Len(text) : IsDigit(text[i])

\* mutant: the digit codes without the branch for 0..7
DigitCodeStandard(cval, c) ==
    IF (30 <= cval /\ cval <= 37) \/ (90 <= cval /\ cval <= 97)
    THEN [c EXCEPT !.fg = _ansi_8_color(cval)]
    ELSE IF (40 <= cval /\ cval <= 47) \/ (100 <= cval /\ cval <= 107)
    THEN [c EXCEPT !.bg = _ansi_8_color(cval - 10)]
    ELSE c

\* "elif code.isdigit()": the colors c = [fg, bg] after the code cval
DigitCode(cval, c) ==
    IF (30 <= cval /\ cval <= 37) \/ (90 <= cval /\ cval <= 97)
    THEN [c EXCEPT !.fg = _ansi_8_color(cval)]
    ELSE IF (40 <= cval /\ cval <= 47) \/ (100 <= cval /\ cval <= 107)
    THEN [c EXCEPT !.bg = _ansi_8_color(cval - 10)]
    ELSE IF 0 <= cval /\ cval <= 7
    THEN [c EXCEPT !.fg = _ansi_8_color(30 + cval)]
    ELSE c

\* "38"/"48" at parts[j] (1-based): the color they set, if they set one, and
\* the parts they take.  r, g and b are assigned to the color only when all
\* three int() calls succeed
Extended(parts, j, old) ==
    IF j + 1 <= Len(parts) /\ parts[j + 1] = <<50>> /\ j + 4 <= Len(parts)
    THEN [color |-> IF \A k \in 2..4 : PyInt(parts[j + k]).kind = "value"
                    THEN <<PyInt(parts[j + 2]).value, PyInt(parts[j + 3]).value,
                           PyInt(parts[j + 4]).value>>
                    ELSE old,
          skip |-> 4]
    ELSE IF j + 1 <= Len(parts) /\ parts[j + 1] = <<53>> /\ j + 2 <= Len(parts)
    THEN [color |-> IF PyInt(parts[j + 2]).kind = "value"
                    THEN _ansi_256_color(PyInt(parts[j + 2]).value) ELSE old,
          skip |-> 2]
    ELSE [color |-> old, skip |-> 0]

\* "while j < len(parts)"
RECURSIVE SgrParts(_, _, _)
SgrParts(parts, j, c) ==
    IF j > Len(parts) THEN c
    ELSE LET code == parts[j]
         IN  IF code = <<48>> THEN SgrParts(parts, j + 1, [fg |-> NoColor, bg |-> NoColor])
             ELSE IF code = <<51, 57>> THEN SgrParts(parts, j + 1, [c EXCEPT !.fg = NoColor])
             ELSE IF code = <<52, 57>> THEN SgrParts(parts, j + 1, [c EXCEPT !.bg = NoColor])
             ELSE IF code = <<51, 56>>
                  THEN SgrParts(parts, j + Extended(parts, j, c.fg).skip + 1,
                                [c EXCEPT !.fg = Extended(parts, j, c.fg).color])
             ELSE IF code = <<52, 56>>
                  THEN SgrParts(parts, j + Extended(parts, j, c.bg).skip + 1,
                                [c EXCEPT !.bg = Extended(parts, j, c.bg).color])
             ELSE IF IsDigits(code)
                  THEN SgrParts(parts, j + 1, DigitCode(DigitsValue(code), c))
             ELSE SgrParts(parts, j + 1, c)

\* parse_ansi_lines at ESC [ seq m: the colors after the sequence
Sgr(seq, c) ==
    IF seq = <<>> \/ SplitParts(seq, <<>>) = <<>> THEN [fg |-> NoColor, bg |-> NoColor]
    ELSE SgrParts(SplitParts(seq, <<>>), 1, c)

---------------------------------------------------------------------------
(* Specifications *)

\* a session over a list of 1..MaxTabs tabs whose previews were all captured
\* just now ("next": first tab active, nothing persisted; "prev": last tab
\* active, StoredMap persisted; the oracle for up to MaxOracleTabs tabs), and
\* a session over StampedList, and one over two tabs with no preview persisted
Init ==
    \/ \E n \in 1..MaxTabs : \E d \in {1, -1} :
       \E o \in (IF n <= MaxOracleTabs /\ d = 1 THEN BOOLEAN ELSE {FALSE}) :
           New(HostList(n, IF d = 1 THEN 1 ELSE n),
               IF d = 1 THEN EmptyMap ELSE StoredMap,
               StoredPreviews(HostList(n, 1), Now0), d, o)
    \/ New(StampedList, EmptyMap, StoredPreviews(StampedList, Now0), 1, FALSE)
    \/ New(HostList(2, 1), EmptyMap, EmptyMap, 1, FALSE)

Next ==
    \/ Reconcile
    \/ InitState
    \/ \E d \in Delays : \E sent \in BOOLEAN : \E mods \in PollMods :
            RunStart(d, sent, mods)
    \/ \E res \in FetchResults : \E mods \in PollMods : Tick(res, mods)
    \/ \E cmd \in Commands : \E d \in Delays : Command(cmd, d)
    \/ \E ev \in KeyEvents : \E d \in Delays : Key(ev, d)

Spec == Init /\ [][Next]_vars

\* the construction alone, over every host list of 1..MaxNewTabs tabs: the
\* ids 1..n in each rotation, the active flag on no tab or on one, a host
\* timestamp on any of the tabs, any persisted map (one of two when a host
\* timestamp is given)
HostStamps == {NoneVal, 5, FutureScore}

StoredScores == {NoneVal, 5, 10}

Rotation(n, r) == [i \in 1..n |-> ((i + r - 1) % n) + 1]

\* the dict a score assignment sc (NoneVal: no entry) stands for
AsMap(sc) == [tid \in {x \in DOMAIN sc : sc[x] # NoneVal} |-> sc[tid]]

NewHostLists ==
    UNION {{[i \in 1..n |-> TabInfo(Rotation(n, r)[i], i = a, st[i])] :
                r \in 0..(n - 1), a \in 0..n, st \in [1..n -> HostStamps]} :
           n \in 1..MaxNewTabs}

NewStoredMaps(ts) ==
    IF HasHostTimestamps(ts)
    THEN {EmptyMap, [tid \in 1..Len(ts) |-> 5 * tid]}
    ELSE {AsMap(sc) : sc \in [1..Len(ts) -> StoredScores]}

InitNew ==
    \E ts \in NewHostLists : \E m \in NewStoredMaps(ts) : \E d \in {1, -1} :
        New(ts, m, EmptyMap, d, FALSE)

NextNew == Reconcile \/ InitState

SpecNew == InitNew /\ [][NextNew]_vars

\* the key decoder alone, over the byte sequences that arrive on stdin: ESC [,
\* up to MaxParams parameter bytes and a final byte or none (the input ends
\* there), some other sequences, and the encodings of the key reports of
\* 1..MaxMods modifiers
MaxParams == 4

MaxMods == 6

ParamBytes == {49, 57, 58, 59, 63}

FinalBytes == {<<117>>, <<126>>, <<90>>, <<>>}

CsiInputs ==
    {<<27, 91>> \o p \o f :
        p \in UNION {[1..n -> ParamBytes] : n \in 0..MaxParams}, f \in FinalBytes}

\* an empty read, Tab, q, a byte that is not ASCII, a bare ESC, ESC O, CSI I,
\* F24 (CSI 24 ~), and CSI u with '<', '=', a sign and spaces in the parameters
OtherInputs ==
    {<<>>, <<9>>, <<113>>, <<200>>, <<27>>, <<27, 79>>, <<27, 91, 73>>,
     <<27, 91, 50, 52, 126>>, <<27, 91, 60, 49, 117>>, <<27, 91, 61, 49, 117>>,
     <<27, 91, 45, 49, 117>>, <<27, 91, 32, 57, 32, 117>>, <<27, 91, 32, 57, 32, 126>>}

\* the decimal digits of n >= 0
RECURSIVE ToDigits(_)
ToDigits(n) ==
    IF n < 10 THEN <<48 + n>> ELSE Append(ToDigits(n \div 10), 48 + (n % 10))

\* the forms of ESC [ code[:alt][;mods[:event]] u
Forms == {"full", "alt", "no_event", "empty_event", "no_mods", "empty_mods",
          "empty_mods_event"}

Encode(code, mods, event_type, form) ==
    <<27, 91>> \o ToDigits(code)
    \o (IF form = "alt" THEN <<58, 54, 53>> ELSE <<>>)
    \o (CASE form \in {"full", "alt"} ->
                <<59>> \o ToDigits(mods) \o <<58>> \o ToDigits(event_type)
          [] form = "no_event" -> <<59>> \o ToDigits(mods)
          [] form = "empty_event" -> <<59>> \o ToDigits(mods) \o <<58>>
          [] form = "no_mods" -> <<>>
          [] form = "empty_mods" -> <<59>>
          [] form = "empty_mods_event" -> <<59, 58>> \o ToDigits(event_type))
    \o <<117>>

\* the key reports: a form that leaves a field out stands for that field's
\* default
KeyReports ==
    {[code |-> c, mods |-> m, event_type |-> e, form |-> f] :
        c \in {0, 9, 27, 113, 57442}, m \in 1..MaxMods, e \in EventTypes, f \in Forms}

WellFormed(r) ==
    /\ r.form \in {"no_event", "empty_event", "no_mods", "empty_mods"}
            => r.event_type = 1
    /\ r.form \in {"no_mods", "empty_mods", "empty_mods_event"} => r.mods = 1

NoReport == [code |-> 0, mods |-> 0, event_type |-> 0, form |-> "none"]

\* a session that is not looked at: one tab, nothing persisted
NoSession == Fields(HostList(1, 1), EmptyMap, EmptyMap, 1, FALSE)

InitDecode ==
    /\ NoSession
    /\ \/ \E bs \in CsiInputs \cup OtherInputs :
            arg = [bytes |-> bs, report |-> NoReport]
       \/ \E r \in {x \in KeyReports : WellFormed(x)} :
            arg = [bytes |-> Encode(r.code, r.mods, r.event_type, r.form),
                   report |-> r]
    /\ ret = Pending

sessionFields == <<pc, state, now, direction, hostTabs, mru, tabs, last_used,
                   original_tab_id, mru_order, selected_index, ctrl_down,
                   start_time, saw_tab_event, ctrl_seen, mod_query,
                   poll_ctrl_seen, any_key_event, ctrl_up_streak, marker_seen,
                   marker_sent, initial_mods_checked, initial_ctrl_down,
                   preview_cache, preview_cache_ts, preview_queue, store,
                   preview_store, focus, commit_by>>

\* ev = read_key(fd)
ReadKey ==
    /\ ret = Pending
    /\ ret' = read_key(arg.bytes)
    /\ UNCHANGED <<arg, sessionFields>>

NextDecode == ReadKey

SpecDecode == InitDecode /\ [][NextDecode]_vars

\* read_key read by read: ret holds the decoder's position (pc), its buffer,
\* the number of reads made, the number of bytes consumed, whether a byte
\* that was still to come missed a 10 ms timeout, and the result.  The
\* streams: ESC [, 0..MaxStream parameter bytes and then a final byte, a
\* final byte with more behind it, or nothing; key reports of up to
\* MaxParams bytes; and the other inputs of SpecDecode
MaxStream == 65

StreamTails == {<<>>, <<120>>, <<126>>, <<90, 49>>}

StreamInputs ==
    {<<27, 91>> \o [i \in 1..n |-> p] \o f :
        n \in 0..MaxStream, p \in {49, 59}, f \in StreamTails}
    \cup {<<27, 91>> \o [i \in 1..n |-> p] \o <<117>> :
            n \in 0..MaxParams, p \in {49, 59}}

InitBuffer ==
    /\ NoSession
    /\ \E bs \in StreamInputs \cup OtherInputs : arg = [bytes |-> bs]
    /\ ret = [pc |-> "first", buf |-> <<>>, reads |-> 0, pos |-> 0,
              late |-> FALSE, result |-> Pending]

\* read_with_timeout(fd, 0.01): the next byte, or nothing when the input has
\* ended or the byte does not come within the timeout
Arrives(late) == ret.pos < Len(arg.bytes) /\ ~late

Ch == arg.bytes[ret.pos + 1]

AfterRead(late) ==
    [ret EXCEPT !.reads = @ + 1,
                !.pos = IF Arrives(late) THEN @ + 1 ELSE @,
                !.late = @ \/ (late /\ ret.pos < Len(arg.bytes))]

ReturnKey(r, result) == [r EXCEPT !.pc = "returned", !.result = result]

\* first = os.read(fd, 1): the loop calls read_key when stdin is readable, so
\* this read gives a byte or, at the end of the input, nothing
ReadFirst ==
    /\ ret.pc = "first"
    /\ LET r == AfterRead(FALSE)
       IN  ret' = IF ~Arrives(FALSE) THEN ReturnKey(r, ReturnedNone)
                  ELSE IF Ch = 9 THEN ReturnKey(r, Returned(KeyEvent(TAB_CODE, 1, 1)))
                  ELSE IF Ch # 27 THEN ReturnKey(r, Returned(KeyEvent(Ch, 1, 1)))
                  ELSE [r EXCEPT !.pc = "second"]
    /\ UNCHANGED <<arg, sessionFields>>

\* nxt = read_with_timeout(fd, 0.01)
ReadSecond(late) ==
    /\ ret.pc = "second"
    /\ LET r == AfterRead(late)
       IN  ret' = IF ~Arrives(late) \/ Ch # 91
                  THEN ReturnKey(r, Returned(KeyEvent(ESC_CODE, 1, 1)))
                  ELSE [r EXCEPT !.pc = "loop", !.buf = <<27, 91>>]
    /\ UNCHANGED <<arg, sessionFields>>

\* one turn of the loop, and what follows the loop when this turn leaves it
ReadMore(late) ==
    /\ ret.pc = "loop"
    /\ LET r == AfterRead(late)
           buf == IF Arrives(late) THEN Append(ret.buf, Ch) ELSE ret.buf
           leaves == \/ ~Arrives(late)
                     \/ IsFinal(Ch)
                     \/ CapReached(buf)
       IN  ret' = IF leaves THEN ReturnKey([r EXCEPT !.buf = buf], KeyOfBuffer(buf))
                  ELSE [r EXCEPT !.buf = buf]
    /\ UNCHANGED <<arg, sessionFields>>

NextBuffer ==
    \/ ReadFirst
    \/ \E late \in BOOLEAN : ReadSecond(late)
    \/ \E late \in BOOLEAN : ReadMore(late)

SpecBuffer == InitBuffer /\ [][NextBuffer]_vars

\* the SGR sequences alone: ESC [ seq m for every seq of up to MaxSgrLen of
\* the bytes 0 1 3 4 7 ; and some longer ones, read with any of four pairs
\* of colors in force
MaxSgrLen == 3

SgrBytes == {48, 49, 51, 52, 55, 59}

\* "1;31", "38;5;1", "38;5;196", "48;5;240", "38;2;1;2;3", "38;2;1;x;3",
\* "38:5:9", "107", "0040"
LongSgr ==
    {<<49, 59, 51, 49>>, <<51, 56, 59, 53, 59, 49>>,
     <<51, 56, 59, 53, 59, 49, 57, 54>>, <<52, 56, 59, 53, 59, 50, 52, 48>>,
     <<51, 56, 59, 50, 59, 49, 59, 50, 59, 51>>,
     <<51, 56, 59, 50, 59, 49, 59, 120, 59, 51>>,
     <<51, 56, 58, 53, 58, 57>>, <<49, 48, 55>>, <<48, 48, 52, 48>>}

SgrInputs == UNION {[1..n -> SgrBytes] : n \in 0..MaxSgrLen} \cup LongSgr

InitSgr ==
    /\ NoSession
    /\ \E seq \in SgrInputs : \E f \in {NoColor, <<205, 49, 49>>} :
       \E b \in {NoColor, <<36, 114, 200>>} :
            arg = [seq |-> seq, fg |-> f, bg |-> b]
    /\ ret = Pending

ParseSgr ==
    /\ ret = Pending
    /\ ret' = Returned(Sgr(arg.seq, [fg |-> arg.fg, bg |-> arg.bg]))
    /\ UNCHANGED <<arg, sessionFields>>

NextSgr == ParseSgr

SpecSgr == InitSgr /\ [][NextSgr]_vars

\* the session with the decoder in front of it: the bytes of one key arrive
\* on stdin, any number of times and at any time of the session, and what
\* read_key makes of them goes through the loop's key branch.  A sequence
\* that ends before its final byte stands for one cut off by the 10 ms
\* timeout of read_with_timeout
StdinInputs ==
    {<<27, 91, 65>>, <<27, 91, 49, 59, 53, 65>>, <<27, 91, 53, 126>>,
     <<27, 91, 50, 126>>, <<27, 91, 126>>, <<27, 79, 65>>, <<27, 120>>,
     <<27, 27>>, <<27, 91>>, <<27, 91, 57>>, <<27, 91, 50, 52>>,
     <<27, 91, 57, 59, 53>>,
     <<>>, <<27>>, <<9>>, <<113>>, <<97>>, <<27, 91, 90>>, <<27, 91, 73>>,
     <<27, 91, 57, 126>>, <<27, 91, 50, 52, 126>>, <<27, 91, 57, 32, 126>>,
     <<27, 91, 57, 59, 53, 117>>, <<27, 91, 53, 55, 52, 52, 50, 59, 49, 58, 51, 117>>,
     <<27, 91, 63, 117>>, <<27, 91, 117>>}

InitStdin ==
    /\ \E bs \in StdinInputs : \E o \in BOOLEAN :
        /\ Fields(HostList(2, 1), EmptyMap, EmptyMap, 1, o)
        /\ arg = [bytes |-> bs]
    /\ ret = <<>>

\* ev = read_key(fd) on the bytes that arrived d ms into the wait; None is
\* skipped ("continue"), an exception of the decoder ends run()
Stdin(d) ==
    /\ pc = "loop"
    /\ now + d - start_time <= MaxElapsed
    /\ LET r == read_key(arg.bytes)
       IN  IF r.kind = "value" THEN KeyAt(r.value, now + d)
           ELSE /\ now' = now + d
                /\ pc' = IF r.kind = "raise" THEN "done" ELSE pc
                /\ UNCHANGED <<state, mru_order, last_used, store, focus, commit_by>>
                /\ UNCHANGED <<selected_index, saw_tab_event, ctrl_seen,
                               any_key_event, marker_seen, ctrl_down,
                               poll_ctrl_seen, ctrl_up_streak>>
                /\ UNCHANGED <<preview_cache, preview_cache_ts, preview_store,
                               preview_queue>>
                /\ UNCHANGED constructed

NextStdin ==
    \/ Reconcile
    \/ InitState
    \/ \E d \in Delays : \E sent \in BOOLEAN : \E mods \in PollMods :
            RunStart(d, sent, mods)
    \/ \E res \in FetchResults : \E mods \in PollMods : Tick(res, mods)
    \/ \E d \in Delays : Stdin(d)

SpecStdin == InitStdin /\ [][NextStdin]_vars

\* the preview cache over a longer session: two tabs, each with no preview
\* persisted, with one that has no timestamp, or with one captured just now;
\* no oracle, the marker key not sent.  Ctrl+Tab presses and "next" commands
\* arrive, and idle ticks pass, up to MaxCacheElapsed after the start, past
\* the preview refresh time
MaxCacheElapsed == 600

LoadedPreviews ==
    UNION {[S -> {[lines |-> "text", ts |-> NoneVal], [lines |-> "text", ts |-> Now0]}] :
            S \in SUBSET {HostId(1), HostId(2)}}

InitCache ==
    /\ \E pv \in LoadedPreviews :
        /\ Fields(HostList(2, 1), EmptyMap, pv, 1, FALSE)
        /\ arg = [loaded |-> pv]
    /\ ret = <<>>

CacheTick(res) ==
    /\ now + TICK_MS - start_time <= MaxCacheElapsed
    /\ TickAt(now + TICK_MS, res, NoneVal)

CacheKey(d) ==
    /\ now + d - start_time <= MaxCacheElapsed
    /\ KeyAt(KeyEvent(TAB_CODE, 5, 1), now + d)

CacheCommand(d) ==
    /\ now + d - start_time <= MaxCacheElapsed
    /\ CommandAt(NextBytes, now + d)

NextCache ==
    \/ Reconcile
    \/ InitState
    \/ RunStart(0, FALSE, NoneVal)
    \/ \E res \in FetchResults : CacheTick(res)
    \/ \E d \in Delays : CacheKey(d)
    \/ \E d \in Delays : CacheCommand(d)

SpecCache == InitCache /\ [][NextCache]_vars

\* ctrl_is_down alone, over the modifier values 0..MaxModsValue and the masks
\* 0..MaxMask
MaxModsValue == 16

MaxMask == 8

InitMods ==
    /\ NoSession
    /\ \E m \in 0..MaxModsValue : \E k \in 0..MaxMask :
            arg = [mods |-> m, ctrl_mask |-> k]
    /\ ret = Pending

\* ctrl_is_down(mods, self.ctrl_mask)
CtrlIsDown ==
    /\ ret = Pending
    /\ ret' = Returned(ctrl_is_down(arg.mods, arg.ctrl_mask))
    /\ UNCHANGED <<arg, sessionFields>>

NextMods == CtrlIsDown

SpecMods == InitMods /\ [][NextMods]_vars

\* the idle session: no key and no command ever arrives, and stdin is open
\* or at end of file.  Three tabs whose previews were all captured just now,
\* or with no preview persisted, with and without the oracle.  The clock is
\* counted up to IdleLimit after the start, past every threshold of the
\* guards and past the preview refresh time, and held there; the oracle
\* answers "not held" at most MaxStreak times before it has answered "held"
IdleLimit == 600

MaxStreak == 3

InitIdle ==
    /\ \E o \in BOOLEAN : \E fresh \in BOOLEAN :
            Fields(HostList(3, 1), EmptyMap,
                   IF fresh THEN StoredPreviews(HostList(3, 1), Now0) ELSE EmptyMap,
                   1, o)
    /\ \E e \in BOOLEAN : arg = [eof |-> e]
    /\ ret = <<>>

IdleClock == Min(now + TICK_MS, start_time + IdleLimit)

\* select() times out: stdin is open and silent
IdleTick(res, mods) ==
    /\ ~arg.eof
    /\ (mod_query /\ mods = 0 /\ ~poll_ctrl_seen) => ctrl_up_streak < MaxStreak
    /\ TickAt(IdleClock, res, mods)

\* stdin is at end of file: select() reports it readable at once, read_key
\* returns None and the loop goes round, never through the idle branch (one
\* step stands for the iterations of TICK_MS)
ReadNone ==
    /\ arg.eof
    /\ pc = "loop"
    /\ now' = IdleClock
    /\ NoMove
    /\ Continue
    /\ UNCHANGED <<ctrl_down, saw_tab_event, ctrl_seen, poll_ctrl_seen,
                   any_key_event, ctrl_up_streak, marker_seen>>
    /\ UNCHANGED constructed

NextIdle ==
    \/ Reconcile
    \/ InitState
    \/ \E d \in Delays : \E sent \in BOOLEAN : \E mods \in PollMods :
            RunStart(d, sent, mods)
    \/ \E res \in FetchResults : \E mods \in PollMods : IdleTick(res, mods)
    \/ ReadNone

\* the loop never stops going round
SpecIdle == InitIdle /\ [][NextIdle]_vars /\ WF_vars(NextIdle)

\* the stores alone, over the shapes of a store file: missing, unreadable,
\* not JSON, JSON that is no object, and an object by what it holds for this
\* process and, in that, for this group
Roots == {"missing", "unreadable", "not_json", "null", "number", "string",
          "string_pid", "list", "list_pid", "object"}

PidEntries == {"absent", "null", "number", "string", "list", "object"}

GroupEntries == {"absent", "null", "number", "string", "list", "scores",
                 "bad_scores", "previews", "legacy_previews", "bad_previews"}

Shapes ==
    {[root |-> r, pid |-> "absent", group |-> "absent"] : r \in Roots}
    \cup {[root |-> "object", pid |-> p, group |-> "absent"] : p \in PidEntries}
    \cup {[root |-> "object", pid |-> "object", group |-> g] : g \in GroupEntries}

GroupValue(g) ==
    CASE g = "null" -> JNull
      [] g = "number" -> JNum(5)
      [] g = "string" -> JStr("abc")
      [] g = "list" -> JList(<<JNum(5), JStr("2"), JStr("x"), JNull>>)
      [] g = "scores" -> JObj([k \in {"5", "2"} |-> IF k = "5" THEN JNum(10) ELSE JStr("10")])
      [] g = "bad_scores" -> JObj([k \in {"5", "x"} |-> IF k = "5" THEN JStr("y") ELSE JNum(1)])
      [] g = "previews" ->
            JObj([k \in {"5", "2"} |->
                    JObj([fld \in {"lines", "ts"} |->
                            IF fld = "lines" THEN JList(<<JStr("text")>>)
                            ELSE IF k = "5" THEN JNum(Now0) ELSE JStr("now")])])
      [] g = "legacy_previews" -> JObj([k \in {"5"} |-> JList(<<JStr("text")>>)])
      [] g = "bad_previews" ->
            JObj([k \in {"5", "2"} |-> IF k = "5" THEN JNum(3) ELSE JList(<<JNum(1)>>)])

PidValue(p, g) ==
    CASE p = "null" -> JNull
      [] p = "number" -> JNum(5)
      [] p = "string" -> JStr("abc")
      [] p = "list" -> JList(<<>>)
      [] p = "object" ->
            IF g = "absent" THEN JObj([k \in {"2"} |-> JObj(EmptyMap)])
            ELSE JObj([k \in {OswKey} |-> GroupValue(g)])

\* the file of a shape; another process's entry is in every object
FileOf(sh) ==
    CASE sh.root = "missing" -> [kind |-> "missing", data |-> JNull]
      [] sh.root = "unreadable" -> [kind |-> "unreadable", data |-> JNull]
      [] sh.root = "not_json" -> [kind |-> "not_json", data |-> JNull]
      [] sh.root = "null" -> [kind |-> "json", data |-> JNull]
      [] sh.root = "number" -> [kind |-> "json", data |-> JNum(5)]
      [] sh.root = "string" -> [kind |-> "json", data |-> JStr("abc")]
      [] sh.root = "string_pid" -> [kind |-> "json", data |-> JStr(PidKey)]
      [] sh.root = "list" -> [kind |-> "json", data |-> JList(<<>>)]
      [] sh.root = "list_pid" -> [kind |-> "json", data |-> JList(<<JStr(PidKey)>>)]
      [] sh.root = "object" ->
            [kind |-> "json",
             data |-> JObj([k \in (IF sh.pid = "absent" THEN {"88"} ELSE {"88", PidKey}) |->
                            IF k = PidKey THEN PidValue(sh.pid, sh.group)
                            ELSE JObj(EmptyMap)])]

\* the MRU maps a commit saves
CommitMaps == {CommitScores(<<5>>, Now0), CommitScores(<<2, 5>>, Now0)}

InitStore ==
    /\ NoSession
    /\ \E st \in {"mru", "previews"} : \E sh \in Shapes : \E lu \in CommitMaps :
            arg = [store |-> st, shape |-> sh, last_used |-> lu]
    /\ ret = [load |-> Pending, save |-> Pending]

\* main: StateStore(os_window_id).load(); __init__: self.preview_state.load()
Load ==
    /\ ret.load = Pending
    /\ ret' = [ret EXCEPT !.load =
                IF arg.store = "mru" THEN StateStore_load(FileOf(arg.shape), Now0)
                ELSE PreviewStore_load(FileOf(arg.shape))]
    /\ UNCHANGED <<arg, sessionFields>>

\* the save that follows in a session that got that far: of the MRU on
\* commit, of the previews after a fetch
Save ==
    /\ ret.load.kind = "value" /\ ret.save = Pending
    /\ ret' = [ret EXCEPT !.save =
                IF arg.store = "mru"
                THEN StateStore_save(FileOf(arg.shape), arg.last_used)
                ELSE PreviewStore_save(FileOf(arg.shape),
                        [tid \in DOMAIN arg.last_used |-> <<JStr("text")>>],
                        EmptyMap, Now0)]
    /\ UNCHANGED <<arg, sessionFields>>

NextStore == Load \/ Save

SpecStore == InitStore /\ [][NextStore]_vars

\* a commit and the session after it: a session of 1..MaxRoundTabs tabs, in
\* any MRU order and with any of them the original tab, commits any of them
\* at Now0 and saves; the next session of the same process and group loads
\* the file at Now0 + later (the clock may have been set back) and
\* reconciles the host's list, the same tabs in any order, the committed one
\* active, none with a host timestamp
MaxRoundTabs == 3

Orderings(S) ==
    {f \in [1..Cardinality(S) -> S] : \A i, j \in 1..Cardinality(S) : f[i] = f[j] => i = j}

RoundFiles ==
    {FileOf([root |-> "missing", pid |-> "absent", group |-> "absent"]),
     FileOf([root |-> "object", pid |-> "object", group |-> "scores"])}

InitRound ==
    /\ NoSession
    /\ \E n \in 1..MaxRoundTabs :
       \E order \in Orderings({HostId(i) : i \in 1..n}) :
       \E host \in Orderings({HostId(i) : i \in 1..n}) :
       \E tab_id \in {HostId(i) : i \in 1..n} :
       \E orig \in {HostId(i) : i \in 1..n} :
       \E later \in {-5, 0, TICK_MS} : \E f \in RoundFiles :
            arg = [mru_order |-> order, tab_id |-> tab_id, original_tab_id |-> orig,
                   host |-> host, later |-> later, file |-> f]
    /\ ret = [pc |-> "session", file |-> arg.file, order |-> <<>>,
              mru |-> EmptyMap, tabs |-> <<>>]

\* commit(): _update_mru and the save of the scores
RoundCommit ==
    /\ ret.pc = "session"
    /\ LET new_order == UpdateMruOrder(arg.mru_order, arg.tab_id, arg.original_tab_id)
           saved == StateStore_save(ret.file, CommitScores(new_order, Now0))
       IN  ret' = [ret EXCEPT !.pc = IF saved.kind = "value" THEN "saved" ELSE "raised",
                              !.order = new_order,
                              !.file = IF saved.kind = "value" THEN saved.value ELSE @]
    /\ UNCHANGED <<arg, sessionFields>>

\* main() of the next invocation: StateStore(os_window_id).load()
RoundLoad ==
    /\ ret.pc = "saved"
    /\ LET loaded == StateStore_load(ret.file, Now0 + arg.later)
       IN  ret' = [ret EXCEPT !.pc = IF loaded.kind = "value" THEN "loaded" ELSE "raised",
                              !.mru = IF loaded.kind = "value" THEN loaded.value ELSE @]
    /\ UNCHANGED <<arg, sessionFields>>

\* __init__ of the next session: _reconcile_mru on the host's list
RoundReconcile ==
    /\ ret.pc = "loaded"
    /\ LET ts == [i \in 1..Len(arg.host) |->
                    TabInfo(arg.host[i], arg.host[i] = arg.tab_id, NoneVal)]
       IN  ret' = [ret EXCEPT !.pc = "reconciled",
                              !.tabs = TabIds(ReconcileTabs(ts, ret.mru, Now0 + arg.later))]
    /\ UNCHANGED <<arg, sessionFields>>

NextRound == RoundCommit \/ RoundLoad \/ RoundReconcile

SpecRound == InitRound /\ [][NextRound]_vars

\* two sessions of one process, of the groups "1" and "2", saving into the
\* one store file, each up to MaxSaves times, step by step: save() reads the
\* file (os.path.exists, json.load), opens it for writing, which empties
\* it, and dumps what it read with its own entry replaced.  Nothing orders
\* the steps of one session against the other's
MaxSaves == 2

Savers == {1, 2}

SaverKey(i) == IF i = 1 THEN OswKey ELSE "2"

\* what saver i saves the k-th time: the scores of a commit, or its previews
SaverPayload(st, i, k) ==
    IF st = "mru"
    THEN ScoresPayload(CommitScores(IF i = 1 THEN <<5>> ELSE <<2, 5>>, Now0 + k))
    ELSE PreviewsPayload([tid \in (IF i = 1 THEN {5} ELSE {2, 5}) |-> <<JStr("text")>>],
                         EmptyMap, Now0 + k)

\* the file before: none, or one with an entry of another process and, for
\* this process, entries of the groups "1", "2" and "3"
SharedFile ==
    [kind |-> "json",
     data |-> JObj([p \in {"88", PidKey} |->
                IF p = "88" THEN JObj([g \in {"1"} |-> GroupValue("scores")])
                ELSE JObj([g \in {"1", "2", "3"} |-> GroupValue("scores")])])]

\* an opened file with nothing written yet: no JSON
EmptiedFile == [kind |-> "not_json", data |-> JNull]

InitSavers ==
    /\ NoSession
    /\ \E st \in {"mru", "previews"} :
       \E f \in {SharedFile, [kind |-> "missing", data |-> JNull]} :
            arg = [store |-> st, file |-> f]
    /\ ret = [pc |-> [i \in Savers |-> "idle"],
              saves |-> [i \in Savers |-> 0],
              read |-> [i \in Savers |-> arg.file],
              file |-> arg.file,
              overlap |-> FALSE]

\* save(): "if os.path.exists(self.path): ... data = json.load(f)"
SaveRead(i) ==
    /\ ret.pc[i] = "idle" /\ ret.saves[i] < MaxSaves
    /\ ret' = [ret EXCEPT !.pc[i] = "read",
                          !.read[i] = ret.file,
                          !.overlap = @ \/ \E j \in Savers \ {i} : ret.pc[j] # "idle"]
    /\ UNCHANGED <<arg, sessionFields>>

\* save(): open(self.path, "w")
SaveOpen(i) ==
    /\ ret.pc[i] = "read"
    /\ ret' = [ret EXCEPT !.pc[i] = "open", !.file = EmptiedFile]
    /\ UNCHANGED <<arg, sessionFields>>

\* save(): json.dump(data, f) and the close of the file
SaveDump(i) ==
    /\ ret.pc[i] = "open"
    /\ ret' = [ret EXCEPT !.pc[i] = "idle",
                          !.saves[i] = @ + 1,
                          !.file = StoredAt(ret.read[i], SaverKey(i),
                                        SaverPayload(arg.store, i, ret.saves[i] + 1)).value]
    /\ UNCHANGED <<arg, sessionFields>>

NextSavers == \E i \in Savers : SaveRead(i) \/ SaveOpen(i) \/ SaveDump(i)

SpecSavers == InitSavers /\ [][NextSavers]_vars

\* an invocation from main on: the outcomes of "ls", the sockets of sessions
\* that exist (peers), whether a send to one works, both directions. The
\* session's fields hold what main will hand to RawSwitcher; the session
\* exists from Construct on
KITTY_WINDOW_ID == 10

LsFailed(raises, returncode) ==
    [raises |-> raises, returncode |-> returncode, json |-> FALSE, data |-> JNull]

LsPrinted(data) == [raises |-> FALSE, returncode |-> 0, json |-> TRUE, data |-> data]

Listings ==
    {LsFailed(TRUE, 0), LsFailed(FALSE, 1), LsFailed(FALSE, 0),
     LsPrinted(JNum(5)), LsPrinted(JList(<<JNum(1)>>)), LsPrinted(JObj(EmptyMap)),
     LsPrinted(JList(<<>>)),
     LsPrinted(JList(<<OsWindow(1, <<>>)>>)),
     LsPrinted(JList(<<JObj([k \in {"id"} |-> JNum(1)])>>)),
     LsPrinted(JList(<<OsWindow(1, <<>>),
                       OsWindow(2, <<HostTab(1, TRUE, {20})>>)>>)),
     LsPrinted(JList(<<OsWindow(1, <<>>),
                       OsWindow(2, <<HostTab(1, FALSE, {20}),
                                     HostTab(2, FALSE, {KITTY_WINDOW_ID})>>)>>)),
     LsPrinted(JList(<<OsWindow(1, <<HostTab(1, TRUE, {20})>>)>>))}

\* the tabs main gets from list_tabs (none when it raises)
Listed(ls) ==
    IF list_tabs(ls, KITTY_WINDOW_ID).kind = "value"
    THEN list_tabs(ls, KITTY_WINDOW_ID).value[2] ELSE <<>>

InitMain ==
    /\ \E ls \in Listings : \E p \in SUBSET {0, 1, 2} : \E ok \in BOOLEAN :
            arg = [ls |-> ls, peers |-> p, send_ok |-> ok]
    /\ ret = [pc |-> "main", os_window_id |-> 0, sent |-> <<>>, bound |-> {}]
    /\ \E d \in {1, -1} :
            Fields(Listed(arg.ls), EmptyMap, StoredPreviews(Listed(arg.ls), Now0), d, FALSE)

\* os_window_id, tabs = list_tabs(rc); if not tabs: return ""
ListTabs ==
    /\ ret.pc = "main"
    /\ LET r == list_tabs(arg.ls, KITTY_WINDOW_ID)
       IN  ret' = [ret EXCEPT !.pc = MainListed(r),
                              !.os_window_id = IF r.kind = "value" THEN r.value[1] ELSE 0]
    /\ UNCHANGED <<arg, sessionFields>>

\* if try_send_command(os_window_id, cmd): return ""
TrySendCommand ==
    /\ ret.pc = "sending"
    /\ ret' = IF try_send_command(ret.os_window_id, arg.peers, arg.send_ok)
              THEN [ret EXCEPT !.pc = "exited",
                               !.sent = Append(@, <<ret.os_window_id,
                                    IF direction < 0 THEN PrevBytes ELSE NextBytes>>)]
              ELSE [ret EXCEPT !.pc = "constructing"]
    /\ UNCHANGED <<arg, sessionFields>>

\* mru = StateStore(os_window_id).load(); server = CommandServer(os_window_id);
\* switcher = RawSwitcher(...)
Construct ==
    /\ ret.pc = "constructing"
    /\ ret' = [ret EXCEPT !.pc = "running", !.bound = {ret.os_window_id}]
    /\ UNCHANGED <<arg, sessionFields>>

\* finally: server.close()
Close ==
    /\ ret.pc = "running" /\ pc = "done"
    /\ ret' = [ret EXCEPT !.pc = "exited", !.bound = {}]
    /\ UNCHANGED <<arg, sessionFields>>

NextMain ==
    \/ ListTabs
    \/ TrySendCommand
    \/ Construct
    \/ ret.pc = "running" /\ Reconcile
    \/ ret.pc = "running" /\ InitState
    \/ ret.pc = "running" /\ \E d \in Delays : \E sent \in BOOLEAN : \E mods \in PollMods :
            RunStart(d, sent, mods)
    \/ ret.pc = "running" /\ \E res \in FetchResults : \E mods \in PollMods : Tick(res, mods)
    \/ ret.pc = "running" /\ \E cmd \in Commands : \E d \in Delays : Command(cmd, d)
    \/ ret.pc = "running" /\ \E ev \in KeyEvents : \E d \in Delays : Key(ev, d)
    \/ Close

SpecMain == InitMain /\ [][NextMain]_vars

\* the cards alone, over every list of 0..MaxDrawTabs tabs, every selection
\* in it and every card limit 1..MaxDrawTabs for _visible_cards
MAX_VISIBLE_CARDS == 7

MaxDrawTabs == 9

InitDraw ==
    /\ NoSession
    /\ \E n \in 0..MaxDrawTabs : \E s \in 0..Max(0, n - 1) : \E m \in 1..MaxDrawTabs :
            arg = [tabs |-> HostList(n, 1), selected_index |-> s, max_cards |-> m]
    /\ ret = [visible |-> Pending, drawn |-> Pending]

\* self._visible_cards(max_cards)
VisibleCards ==
    /\ ret.visible = Pending
    /\ ret' = [ret EXCEPT !.visible =
                Returned(_visible_cards(arg.tabs, arg.selected_index, arg.max_cards))]
    /\ UNCHANGED <<arg, sessionFields>>

\* draw(): "No tabs", or the cards of _visible_cards(layout["max_cards"])
Draw ==
    /\ ret.drawn = Pending
    /\ ret' = [ret EXCEPT !.drawn =
                IF arg.tabs = <<>> THEN Returned(<<>>)
                ELSE Returned(_visible_cards(arg.tabs, arg.selected_index,
                                             LayoutMaxCards(arg.tabs)))]
    /\ UNCHANGED <<arg, sessionFields>>

NextDraw == VisibleCards \/ Draw

SpecDraw == InitDraw /\ [][NextDraw]_vars

\* two invocations of main for one host group (its listing gave tabs), in
\* every interleaving of their system calls on the endpoint path
\* command_socket_path(os_window_id).  ret.path is what the path names: no
\* file (NoFile), the bound socket of invocation 1 or 2, or the file of a
\* socket that is closed (StaleFile); ret.inbox counts the datagrams queued on
\* each invocation's socket
Invocations == {1, 2}

NoFile == 0

StaleFile == 3

InitPair ==
    /\ NoSession
    /\ \E d \in [Invocations -> {1, -1}] : arg = [direction |-> d]
    /\ \E p \in {NoFile, StaleFile} :
            ret = [pc |-> [i \in Invocations |-> "exists"],
                   path |-> p,
                   inbox |-> [i \in Invocations |-> <<>>]]

\* try_send_command: os.path.exists(path)
PathExists(i) ==
    /\ ret.pc[i] = "exists"
    /\ ret' = [ret EXCEPT !.pc[i] = IF ret.path = NoFile THEN "load" ELSE "sendto"]
    /\ UNCHANGED <<arg, sessionFields>>

\* try_send_command: sock.sendto(cmd, path); an OSError (no such file,
\* connection refused by a closed socket's file) gives False
SendTo(i) ==
    /\ ret.pc[i] = "sendto"
    /\ ret' = IF ret.path \in Invocations
              THEN [ret EXCEPT !.pc[i] = "exited",
                               !.inbox[ret.path] = Append(@,
                                    IF arg.direction[i] < 0 THEN PrevBytes ELSE NextBytes)]
              ELSE [ret EXCEPT !.pc[i] = "load"]
    /\ UNCHANGED <<arg, sessionFields>>

\* mru = StateStore(os_window_id).load()
LoadMru(i) ==
    /\ ret.pc[i] = "load"
    /\ ret' = [ret EXCEPT !.pc[i] = "bind"]
    /\ UNCHANGED <<arg, sessionFields>>

\* CommandServer.__init__: self.sock.bind(self.path), an OSError when the
\* path has a file
Bind(i) ==
    /\ ret.pc[i] = "bind"
    /\ ret' = IF ret.path = NoFile
              THEN [ret EXCEPT !.pc[i] = "running", !.path = i]
              ELSE [ret EXCEPT !.pc[i] = "unlink"]
    /\ UNCHANGED <<arg, sessionFields>>

\* CommandServer.__init__, except OSError: os.unlink(self.path)
Unlink(i) ==
    /\ ret.pc[i] = "unlink"
    /\ ret' = [ret EXCEPT !.pc[i] = "rebind", !.path = NoFile]
    /\ UNCHANGED <<arg, sessionFields>>

\* CommandServer.__init__, except OSError: the second self.sock.bind(self.path),
\* whose OSError leaves main
Rebind(i) ==
    /\ ret.pc[i] = "rebind"
    /\ ret' = IF ret.path = NoFile
              THEN [ret EXCEPT !.pc[i] = "running", !.path = i]
              ELSE [ret EXCEPT !.pc[i] = "raised"]
    /\ UNCHANGED <<arg, sessionFields>>

\* the session's loop: self.command_server.recv()
Recv(i) ==
    /\ ret.pc[i] = "running"
    /\ ret.inbox[i] # <<>>
    /\ ret' = [ret EXCEPT !.inbox[i] = Tail(@)]
    /\ UNCHANGED <<arg, sessionFields>>

\* run() returns: the session committed or was cancelled
RunReturns(i) ==
    /\ ret.pc[i] = "running"
    /\ ret' = [ret EXCEPT !.pc[i] = "close"]
    /\ UNCHANGED <<arg, sessionFields>>

\* CommandServer.close: self.sock.close()
CloseSock(i) ==
    /\ ret.pc[i] = "close"
    /\ ret' = [ret EXCEPT !.pc[i] = "close_unlink",
                          !.path = IF ret.path = i THEN StaleFile ELSE @,
                          !.inbox[i] = <<>>]
    /\ UNCHANGED <<arg, sessionFields>>

\* CommandServer.close, finally: os.unlink(self.path)
CloseUnlink(i) ==
    /\ ret.pc[i] = "close_unlink"
    /\ ret' = [ret EXCEPT !.pc[i] = "exited", !.path = NoFile]
    /\ UNCHANGED <<arg, sessionFields>>

NextPair ==
    \E i \in Invocations :
        \/ PathExists(i)
        \/ SendTo(i)
        \/ LoadMru(i)
        \/ Bind(i)
        \/ Unlink(i)
        \/ Rebind(i)
        \/ Recv(i)
        \/ RunReturns(i)
        \/ CloseSock(i)
        \/ CloseUnlink(i)

SpecPair == InitPair /\ [][NextPair]_vars

\* a running session and up to MaxSenders later invocations for its group,
\* step by step.  The session's loop waits in select() and then handles what
\* select reported: the command channel first, then stdin, or, when nothing
\* was ready, the idle branch; a key or a guard may end run(), after which
\* main closes the socket and removes its file.  An invocation checks the
\* path, sends its command and reports it sent, or goes on to a session of
\* its own.  ret.inbox holds the senders whose datagram is queued on the
\* session's socket, ret.applied those whose command moved the selection
MaxSenders == 2

Senders == 1..MaxSenders

BoundFile == 1

InitSend ==
    /\ NoSession
    /\ \E d \in [Senders -> {1, -1}] : arg = [direction |-> d]
    /\ ret = [pc |-> "select", ready |-> {}, path |-> BoundFile,
              inbox |-> <<>>, applied |-> <<>>,
              sender |-> [j \in Senders |-> "exists"]]

\* try_send_command: os.path.exists(path)
SenderExists(j) ==
    /\ ret.sender[j] = "exists"
    /\ ret' = [ret EXCEPT !.sender[j] = IF ret.path = NoFile THEN "own_session"
                                        ELSE "sendto"]
    /\ UNCHANGED <<arg, sessionFields>>

\* try_send_command: sock.sendto(cmd, path), then main logs command_sent and
\* returns; an OSError sends main on to a session of its own
SenderSendTo(j) ==
    /\ ret.sender[j] = "sendto"
    /\ ret' = IF ret.path = BoundFile
              THEN [ret EXCEPT !.sender[j] = "command_sent", !.inbox = Append(@, j)]
              ELSE [ret EXCEPT !.sender[j] = "own_session"]
    /\ UNCHANGED <<arg, sessionFields>>

\* run(): r, _, _ = select.select(rlist, [], [], 0.05); keys: stdin is ready
Select(keys) ==
    /\ ret.pc = "select"
    /\ ret' = [ret EXCEPT !.pc = "handle",
                          !.ready = (IF ret.inbox # <<>> THEN {"socket"} ELSE {})
                                    \cup (IF keys THEN {"stdin"} ELSE {})]
    /\ UNCHANGED <<arg, sessionFields>>

\* run(): the command branch, recv() and _move; "if fd not in r: continue"
HandleCommand ==
    /\ ret.pc = "handle" /\ "socket" \in ret.ready
    /\ ret' = [ret EXCEPT !.inbox = Tail(@),
                          !.applied = Append(@, Head(ret.inbox)),
                          !.ready = @ \ {"socket"},
                          !.pc = IF "stdin" \in ret.ready THEN "handle" ELSE "select"]
    /\ UNCHANGED <<arg, sessionFields>>

\* run(): the key branch; ends: the key commits or cancels and run() returns
HandleKey(ends) ==
    /\ ret.pc = "handle" /\ "socket" \notin ret.ready /\ "stdin" \in ret.ready
    /\ ret' = [ret EXCEPT !.ready = {}, !.pc = IF ends THEN "close" ELSE "select"]
    /\ UNCHANGED <<arg, sessionFields>>

\* run(): the idle branch; ends: a guard commits and run() returns
HandleIdle(ends) ==
    /\ ret.pc = "handle" /\ ret.ready = {}
    /\ ret' = [ret EXCEPT !.pc = IF ends THEN "close" ELSE "select"]
    /\ UNCHANGED <<arg, sessionFields>>

\* main, finally: CommandServer.close: self.sock.close()
SessionCloseSock ==
    /\ ret.pc = "close"
    /\ ret' = [ret EXCEPT !.pc = "close_unlink", !.path = StaleFile, !.inbox = <<>>]
    /\ UNCHANGED <<arg, sessionFields>>

\* CommandServer.close, finally: os.unlink(self.path)
SessionCloseUnlink ==
    /\ ret.pc = "close_unlink"
    /\ ret' = [ret EXCEPT !.pc = "exited", !.path = NoFile]
    /\ UNCHANGED <<arg, sessionFields>>

NextSend ==
    \/ \E j \in Senders : SenderExists(j) \/ SenderSendTo(j)
    \/ \E keys \in BOOLEAN : Select(keys)
    \/ HandleCommand
    \/ \E ends \in BOOLEAN : HandleKey(ends) \/ HandleIdle(ends)
    \/ SessionCloseSock
    \/ SessionCloseUnlink

SpecSend == InitSend /\ [][NextSend]_vars

\* the trim alone, over every list of up to MaxTrimLines rows of TrimRows,
\* the lists of ExampleLines rows whose last k are blank, and the target
\* heights TrimHeights; by both paths (the ANSI path has a line that holds
\* an escape sequence, so at least one line)
MaxTrimLines == 3

ExampleLines == 24

TrimRows == {<<>>, <<" ">>, <<"\t", " ">>, <<"x">>, <<" ", "x", " ">>}

TrimHeights == {1, 2, 12}

TrimInputs ==
    UNION {[1..n -> TrimRows] : n \in 0..MaxTrimLines}
    \cup {[i \in 1..ExampleLines |-> IF i > ExampleLines - k THEN <<" ", " ">> ELSE <<"x", " ">>] :
            k \in 0..ExampleLines}

InitTrim ==
    /\ NoSession
    /\ \E ls \in TrimInputs : \E h \in TrimHeights :
       \E p \in (IF ls = <<>> THEN {"plain"} ELSE {"plain", "ansi"}) :
            arg = [lines |-> ls, rows |-> h, path |-> p]
    /\ ret = Pending

\* render_block_preview up to the call of downsample_mask / _downsample_color:
\* the content height, the rows handed over, the mask rows asked for
Trim ==
    /\ ret = Pending
    /\ ret' = Returned([content_rows |-> content_rows(arg.lines),
                        source |-> SubSeq(arg.lines, 1, content_rows(arg.lines)),
                        effective_rows |-> effective_rows(arg.lines, arg.rows)])
    /\ UNCHANGED <<arg, sessionFields>>

NextTrim == Trim

SpecTrim == InitTrim /\ [][NextTrim]_vars

\* downsample_mask alone, over every list of up to MaxMaskLines lines of
\* spaces and "x" that holds up to MaxMaskCells characters by its longest
\* line, every mask size in MaskSizes x MaskSizes, and a space of the input
\* to turn into a non-space (flip; <<0, 0>>: none)
MaxMaskLines == 2

MaxMaskCells == 6

MaskSizes == 0..3

MaskLines(longest) == UNION {[1..l -> {" ", "x"}] : l \in 0..longest}

MaskInputs ==
    {<<>>} \cup UNION {[1..n -> MaskLines(MaxMaskCells \div n)] : n \in 1..MaxMaskLines}

Spaces(lines) ==
    {p \in (1..Len(lines)) \X (1..MaxMaskCells) :
        /\ p[2] <= Len(lines[p[1]])
        /\ lines[p[1]][p[2]] = " "}

\* the input with the character at p made a non-space
Denser(lines, p) ==
    IF p = <<0, 0>> THEN lines
    ELSE [lines EXCEPT ![p[1]] = [@ EXCEPT ![p[2]] = "x"]]

InitMask ==
    /\ NoSession
    /\ \E ls \in MaskInputs : \E cs \in MaskSizes : \E rs \in MaskSizes :
       \E p \in Spaces(ls) \cup {<<0, 0>>} :
            arg = [lines |-> ls, cols |-> cs, rows |-> rs, flip |-> p]
    /\ ret = [mask |-> Pending, denser |-> Pending]

\* mask = downsample_mask(lines, cols, rows)
Downsample ==
    /\ ret.mask = Pending
    /\ ret' = [ret EXCEPT !.mask = Returned(downsample_mask(arg.lines, arg.cols, arg.rows))]
    /\ UNCHANGED <<arg, sessionFields>>

\* the same call on the denser input
DownsampleDenser ==
    /\ ret.denser = Pending
    /\ ret' = [ret EXCEPT !.denser =
                Returned(downsample_mask(Denser(arg.lines, arg.flip), arg.cols, arg.rows))]
    /\ UNCHANGED <<arg, sessionFields>>

NextMask == Downsample \/ DownsampleDenser

SpecMask == InitMask /\ [][NextMask]_vars

\* _downsample_color alone, over the lines of up to MaxColorCells cells made
\* of a run of red, a run of green, a run of uncolored non-spaces and a run
\* of spaces, in that order or the reverse, with or without a background on
\* the first cell, laid out as one line or broken in two, for the mask sizes
\* ColorSizes x ColorSizes
MaxColorCells == 10

ColorSizes == {1, 2}

Red == <<205, 49, 49>>

Green == <<13, 188, 121>>

Blue == <<36, 114, 200>>

Runs(a, b, u, s) ==
    [k \in 1..(a + b + u + s) |->
        IF k <= a THEN Cell("x", Red, NoColor)
        ELSE IF k <= a + b THEN Cell("x", Green, NoColor)
        ELSE IF k <= a + b + u THEN Cell("x", NoColor, NoColor)
        ELSE Cell(" ", NoColor, NoColor)]

Reversed(seq) == [k \in 1..Len(seq) |-> seq[Len(seq) + 1 - k]]

WithBackground(seq) ==
    IF seq = <<>> THEN seq ELSE [seq EXCEPT ![1] = Cell(seq[1][1], seq[1][2], Blue)]

ColorRows ==
    UNION {{Runs(q[1], q[2], q[3], n - q[1] - q[2] - q[3]) :
                q \in {x \in (0..n) \X (0..n) \X (0..n) : x[1] + x[2] + x[3] <= n}} :
            n \in 1..MaxColorCells}

ColorInputs ==
    LET ordered == ColorRows \cup {Reversed(row) : row \in ColorRows}
        painted == ordered \cup {WithBackground(row) : row \in ordered}
    IN  {<<row>> : row \in painted}
        \cup {<<SubSeq(row, 1, (Len(row) + 1) \div 2),
                SubSeq(row, (Len(row) + 1) \div 2 + 1, Len(row))>> : row \in painted}

InitColor ==
    /\ NoSession
    /\ \E ls \in ColorInputs : \E cs \in ColorSizes : \E rs \in ColorSizes :
            arg = [lines |-> ls, cols |-> cs, rows |-> rs]
    /\ ret = Pending

\* mask = _downsample_color(ansi_lines[:content_rows], cols, effective_rows)
DownsampleColor ==
    /\ ret = Pending
    /\ ret' = Returned(_downsample_color(arg.lines, arg.cols, arg.rows))
    /\ UNCHANGED <<arg, sessionFields>>

NextColor == DownsampleColor

SpecColor == InitColor /\ [][NextColor]_vars

\* a session with an oracle whose answers on the idle ticks are scripted:
\* arg.script[k] is what mod_query() returns on the k-th tick.  Two tabs with
\* fresh previews, the loop entered at once, keys arriving between ticks
MaxScript == 5

Scripts == [1..MaxScript -> PollMods]

ScriptKeys == {KeyEvent(TAB_CODE, 5, 1), KeyEvent(MARKER_KEY_CODE, 1, 1),
               KeyEvent(MARKER_KEY_CODE, 1, 3)}

InitOracle ==
    /\ Fields(HostList(2, 1), EmptyMap, StoredPreviews(HostList(2, 1), Now0), 1, TRUE)
    /\ \E s \in Scripts : arg = [script |-> s]
    /\ ret = <<>>

\* the idle tick number k, TICK_MS after the tick before it
ScriptedTick ==
    /\ (now + TICK_MS - start_time) \div TICK_MS <= Len(arg.script)
    /\ \E res \in FetchResults :
            TickAt(now + TICK_MS, res, arg.script[(now + TICK_MS - start_time) \div TICK_MS])

NextOracle ==
    \/ Reconcile
    \/ InitState
    \/ \E sent \in BOOLEAN : \E mods \in PollMods : RunStart(0, sent, mods)
    \/ ScriptedTick
    \/ \E ev \in ScriptKeys : Key(ev, 0)

SpecOracle == InitOracle /\ [][NextOracle]_vars

\* a session whose modifier is not held from the start on (a single quick
\* press): no ctrl key event arrives, the oracle, if there is one, answers
\* unknown or not held.  The marker key is echoed when it was sent, its
\* release only by a terminal that delivers release events (arg.releases);
\* a Tab without modifier may arrive.  Two tabs with fresh previews
NotHeldMods == {NoneVal, 0}

InitMarker ==
    /\ \E o \in BOOLEAN :
            Fields(HostList(2, 1), EmptyMap, StoredPreviews(HostList(2, 1), Now0), 1, o)
    /\ \E b \in BOOLEAN : arg = [releases |-> b]
    /\ ret = <<>>

\* the echo of the marker key sent by _send_marker
MarkerPress(d) ==
    /\ marker_sent /\ ~marker_seen
    /\ Key(KeyEvent(MARKER_KEY_CODE, 1, 1), d)

\* its release event
MarkerRelease(d) ==
    /\ arg.releases
    /\ marker_seen /\ ctrl_down
    /\ Key(KeyEvent(MARKER_KEY_CODE, 1, 3), d)

\* a Tab press without modifier
PlainTab(d) == Key(KeyEvent(TAB_CODE, 1, 1), d)

\* a key that is no cycle key, no marker and no ctrl key
OtherKey(d) == Key(KeyEvent(97, 1, 1), d)

NextMarker ==
    \/ Reconcile
    \/ InitState
    \/ \E d \in Delays : \E sent \in BOOLEAN : \E mods \in NotHeldMods : RunStart(d, sent, mods)
    \/ \E res \in FetchResults : \E mods \in NotHeldMods : Tick(res, mods)
    \/ \E d \in Delays : MarkerPress(d)
    \/ \E d \in Delays : MarkerRelease(d)
    \/ \E d \in Delays : PlainTab(d)
    \/ \E d \in Delays : OtherKey(d)

SpecMarker == InitMarker /\ [][NextMarker]_vars

---------------------------------------------------------------------------
(* Reconciliation and initial selection, under SpecNew *)

HostIds == Range(TabIds(hostTabs))

\* the position of a tab in the list the host reported
HostPos(tid) == CHOOSE i \in 1..Len(hostTabs) : hostTabs[i].id = tid

\* the tab the host flags as active
FlaggedIds == {hostTabs[i].id : i \in {j \in 1..Len(hostTabs) : hostTabs[j].is_active}}

HostStamp(tid) == hostTabs[HostPos(tid)].last_focused

\* C6: the reconciled list is a permutation of the host's tabs, ordered by
\* descending score, equal scores by their position in the host's list; tabs
\* [1,2,3] with persisted scores {1:10, 2:5} and active tab 3 give [3,1,2].
C6_ReconcileOrder ==
    pc = "reconciled" =>
        /\ Len(tabs) = Len(hostTabs)
        /\ Range(tabs) = Range(hostTabs)
        /\ \A i \in 1..Len(tabs) : \A j \in (i + 1)..Len(tabs) :
              \/ last_used[tabs[i].id] > last_used[tabs[j].id]
              \/ /\ last_used[tabs[i].id] = last_used[tabs[j].id]
                 /\ HostPos(tabs[i].id) < HostPos(tabs[j].id)
        /\ ( /\ TabIds(hostTabs) = <<1, 2, 3>>
             /\ FlaggedIds = {3}
             /\ ~HasHostTimestamps(hostTabs)
             /\ mru = [tid \in {1, 2} |-> IF tid = 1 THEN 10 ELSE 5] )
           => TabIds(tabs) = <<3, 1, 2>>

\* C6 witness: the example's inputs reconciled to [3,1,2]
C6_Witness ==
    /\ pc = "reconciled"
    /\ TabIds(hostTabs) = <<1, 2, 3>>
    /\ FlaggedIds = {3}
    /\ ~HasHostTimestamps(hostTabs)
    /\ mru = [tid \in {1, 2} |-> IF tid = 1 THEN 10 ELSE 5]
    /\ TabIds(tabs) = <<3, 1, 2>>

\* C7 (as claimed): whatever the host-supplied or persisted scores, the
\* active tab has the maximum score after reconciliation, is first in the
\* reconciled order and is the session's original tab.
C7_ActiveIsMax ==
    /\ (pc = "reconciled" /\ FlaggedIds # {}) =>
          \E a \in FlaggedIds :
              /\ \A tid \in HostIds : last_used[a] >= last_used[tid]
              /\ tabs[1].id = a
    /\ (pc = "start" /\ FlaggedIds # {}) =>
          /\ original_tab_id \in FlaggedIds
          /\ tabs[1].id = original_tab_id

\* C8: with a host timestamp on any tab the scores are the host's timestamps
\* (0 for a tab without one) and the persisted map changes neither the scores
\* nor the order; with none, they are the persisted scores (0 for a tab not
\* in the map).  The active tab's score is raised to now in both cases.
C8_HostStampsOverrideStore ==
    pc = "reconciled" =>
        /\ DOMAIN last_used = HostIds
        /\ \A tid \in HostIds :
              LET base == IF \E x \in HostIds : HostStamp(x) # NoneVal
                          THEN (IF HostStamp(tid) # NoneVal THEN HostStamp(tid) ELSE 0)
                          ELSE (IF tid \in DOMAIN mru THEN mru[tid] ELSE 0)
              IN  last_used[tid] =
                      IF tid = _active_tab_id(hostTabs) THEN Max(base, now) ELSE base
        /\ (\E x \in HostIds : HostStamp(x) # NoneVal) =>
              tabs = ReconcileTabs(hostTabs, EmptyMap, now)

\* C8 witness: a tab without a host timestamp that the persisted map scores,
\* beside a tab with a host timestamp
C8_Witness ==
    /\ pc = "reconciled"
    /\ \E x \in HostIds, y \in HostIds :
          /\ HostStamp(x) # NoneVal
          /\ HostStamp(y) = NoneVal
          /\ y \in DOMAIN mru
          /\ y # _active_tab_id(hostTabs)
          /\ last_used[y] = 0

\* C9: on entry the selection is the second item (1 mod n) for "next" and the
\* last item (n - 1) for "prev".
C9_InitialIndex ==
    pc = "start" =>
        selected_index = IF direction = 1 THEN 1 % Len(tabs) ELSE Len(tabs) - 1

\* C9 witness: three tabs entered with "prev" select the last one
C9_Witness ==
    pc = "start" /\ direction = -1 /\ Len(tabs) = 3 /\ selected_index = 2

---------------------------------------------------------------------------
(* The session, under Spec *)

\* whether a key event is a cycle key event, and the step it asks for
IsCycleKey(ev) ==
    \/ ev.key_code = TAB_CODE /\ ev.event_type \in {1, 2}
    \/ ev.key_code = -TAB_CODE

CycleStep(ev) == IF ev.key_code = -TAB_CODE \/ ev.mods \in {2, 6} THEN -1 ELSE 1

Terminal == state \in {"Committed", "Cancelled"}

\* C1: a session starts Active and ends Committed or Cancelled; once it has
\* ended no key, command or tick is processed: the selection, the MRU order,
\* the persisted MRU and the focus requests never change again, and at most
\* one focus switch is requested.
C1_SessionLifecycle ==
    /\ state = "Active"
    /\ [](/\ state \in {"Active", "Committed", "Cancelled"}
          /\ Terminal <=> pc = "done"
          /\ Len(focus) <= 1
          /\ state # "Committed" => focus = <<>>)
    /\ [][Terminal => UNCHANGED vars]_vars

\* C1 witness: a session that has committed with its one focus request
C1_Witness == state = "Committed" /\ Len(focus) = 1 /\ saw_tab_event

\* C2: a cycle key press or repeat moves the selection by one with
\* wrap-around, +1 for Tab and -1 for shift-Tab, and the selection stays
\* within 0..n-1 under every key event, command and tick; on 4 tabs Tab
\* steps 1 -> 2 -> 3 -> 0.
C2_CycleByOne ==
    /\ [](Len(tabs) >= 1 /\ selected_index \in 0..(Len(tabs) - 1))
    /\ [][\A ev \in KeyEvents : \A d \in Delays :
            IsCycleKey(ev) =>
                \/ selected_index' = (selected_index + CycleStep(ev)) % Len(tabs)
                \/ ~Key(ev, d)]_vars

\* C2 witness: four tabs entered with "next" (index 1), the selection wrapped
\* round to index 0 by cycle keys
C2_Witness ==
    /\ Len(tabs) = 4 /\ direction = 1 /\ pc = "loop"
    /\ saw_tab_event /\ selected_index = 0

\* the position of a tab in the reconciled order, the MRU order of the session
PriorPos(tid) == CHOOSE i \in 1..Len(tabs) : tabs[i].id = tid

\* C3: a commit of the selected tab c in a session started from tab o makes
\* the MRU order c, then o if it differs, then the other tabs in their prior
\* order; the order is a permutation of the prior one, the persisted scores
\* decrease strictly along it, and the one focus request is for c.
C3_CommitOrder ==
    state = "Committed" =>
        LET c == tabs[selected_index + 1].id
            o == original_tab_id
            rest == {i \in 1..Len(mru_order) : mru_order[i] \notin {c, o}}
        IN  /\ focus = <<c>>
            /\ mru_order[1] = c
            /\ o # c => mru_order[2] = o
            /\ Len(mru_order) = Len(tabs)
            /\ Range(mru_order) = Range(TabIds(tabs))
            /\ \A i \in rest : \A j \in rest :
                  i < j => PriorPos(mru_order[i]) < PriorPos(mru_order[j])
            /\ store = last_used
            /\ DOMAIN store = Range(mru_order)
            /\ \A i \in 1..(Len(mru_order) - 1) :
                  store[mru_order[i]] > store[mru_order[i + 1]]

\* C3 witness: started from tab 5, tab 2 committed: the order starts 2, 5
C3_Witness ==
    /\ state = "Committed" /\ original_tab_id = 5 /\ focus = <<2>>
    /\ Len(mru_order) >= 3 /\ mru_order[1] = 2 /\ mru_order[2] = 5

\* C3 witness of a session whose original tab is not the first of the prior
\* order
OriginalNotFirstCommitted ==
    /\ state = "Committed" /\ tabs[1].id # original_tab_id
    /\ focus # <<original_tab_id>> /\ focus # <<tabs[1].id>>

\* C4: in a run that ends Cancelled the persisted MRU was never written and
\* no focus switch was requested: the persisted MRU is the one loaded.
C4_CancelWritesNothing ==
    /\ [](state = "Cancelled" => store = mru /\ focus = <<>>)
    /\ [][state' = "Cancelled" => store' = store /\ focus' = focus]_vars
    /\ [](state = "Active" => store = mru)

\* C4 witness: a session cancelled after the selection moved
C4_Witness ==
    state = "Cancelled" /\ saw_tab_event /\ mru # EmptyMap /\ store = mru

\* C5: a press of Escape or of q cancels the Active session in that step; a
\* repeat or a release of those keys leaves it Active.
C5_EscapeAndQuit ==
    [][\A ev \in KeyEvents : \A d \in Delays :
            ev.key_code \in {ESC_CODE, Q_CODE} =>
                \/ /\ state = "Active"
                   /\ state' = IF ev.event_type = 1 THEN "Cancelled" ELSE "Active"
                \/ ~Key(ev, d)]_vars

\* C5 witness: a cancelled session (only Escape and q cancel)
C5_Witness == state = "Cancelled" /\ any_key_event /\ ~saw_tab_event

\* C10 (as claimed): a "next" ("prev") command gives the successor a Tab
\* (shift-Tab) press gives: the same selected index, the cycle-seen flag set,
\* the same preview refetch queue.
C10_CommandLikeKey ==
    [][\A cmd \in {NextBytes, PrevBytes} : \A d \in Delays :
          Command(cmd, d) =>
              LET ev == KeyEvent(TAB_CODE, IF cmd = PrevBytes THEN 2 ELSE 1, 1)
                  sel == _move(selected_index, Len(tabs), KeyDelta(ev))
              IN  /\ selected_index' = sel
                  /\ saw_tab_event' = TRUE
                  /\ preview_queue' =
                        _schedule_preview_fetch(
                            DrawQueue(preview_queue, tabs, sel,
                                      preview_cache', preview_cache_ts', now'),
                            tabs, sel, preview_cache', preview_cache_ts', now')]_vars

\* what a command does share with its cycle key: the selected index and the
\* preview refetch queue
CommandMovesLikeKey ==
    [][\A cmd \in {NextBytes, PrevBytes} : \A d \in Delays :
          Command(cmd, d) =>
              LET ev == KeyEvent(TAB_CODE, IF cmd = PrevBytes THEN 2 ELSE 1, 1)
                  sel == _move(selected_index, Len(tabs), KeyDelta(ev))
              IN  /\ selected_index' = sel
                  /\ preview_queue' =
                        _schedule_preview_fetch(
                            DrawQueue(preview_queue, tabs, sel,
                                      preview_cache', preview_cache_ts', now'),
                            tabs, sel, preview_cache', preview_cache_ts', now')]_vars

---------------------------------------------------------------------------
(* The command channel, the oracle and the guards, under Spec *)

\* the flags the commit guards read
guardFlags == <<ctrl_down, saw_tab_event, ctrl_seen, poll_ctrl_seen,
                any_key_event, ctrl_up_streak, marker_seen, marker_sent,
                initial_mods_checked, initial_ctrl_down>>

\* C11 (as claimed): a command-channel payload other than exactly "next" or
\* "prev" is ignored: the selected index, every guard flag and the session
\* state (and with it the MRU, the store and the focus requests) stay as they
\* were.
C11_OtherPayloadIgnored ==
    [][\A cmd \in Commands \ {NextBytes, PrevBytes} : \A d \in Delays :
          \/ UNCHANGED <<selected_index, guardFlags, state, pc, mru_order,
                         last_used, store, focus, preview_queue, preview_cache>>
          \/ ~Command(cmd, d)]_vars

\* what the code does ignore: a payload whose decoded text is neither "next"
\* nor "prev"
DecodedOtherPayloadIgnored ==
    [][\A cmd \in Commands : \A d \in Delays :
          recv(cmd) \notin {NextBytes, PrevBytes} =>
              \/ UNCHANGED <<selected_index, guardFlags, state, pc, mru_order,
                             last_used, store, focus, preview_queue, preview_cache>>
              \/ ~Command(cmd, d)]_vars

\* two ticks' time into a session that saw no key, with the preview queue as
\* run() filled it and nothing fetched: only ignored payloads lead here (a
\* tick drains the queue, "next" and "prev" fetch)
IgnoredPayloadsOnly ==
    /\ pc = "loop" /\ now - start_time >= 2 * TICK_MS
    /\ ~any_key_event /\ Len(preview_queue) = 2 /\ DOMAIN preview_cache = {}

---------------------------------------------------------------------------
(* The key decoder, under SpecDecode *)

\* C12 (as claimed): the key decoder never raises: for every byte sequence
\* on stdin (cut off by the end of the input or not, with CSI u parameters
\* that are plain decimal numbers or not) it returns a key event or None.
C12_DecoderNeverRaises == ret.kind \in {"pending", "value", "none"}

\* what does hold: a sequence that does not end in 'u' never raises, and an
\* unknown form of it decodes to a bare Escape press
OnlyCsiURaises ==
    (ret.kind # "pending" /\ arg.bytes # <<>>
        /\ arg.bytes[Len(arg.bytes)] # 117) =>
        /\ ret.kind = "value"
        /\ (/\ Len(arg.bytes) >= 2 /\ arg.bytes[1] = 27
            /\ arg.bytes[Len(arg.bytes)] \notin {90, 73, 126})
                => ret.value = KeyEvent(ESC_CODE, 1, 1)

\* C13: every key report (code, mods, event type) encoded as
\* ESC [ code[:alt][;mods[:event]] u decodes to the same triple; an absent or
\* empty mods field decodes to mods 1, an absent or empty event field to
\* event type 1.
C13_RoundTrip ==
    (ret.kind # "pending" /\ arg.report.form # "none") =>
        /\ ret.kind = "value"
        /\ ret.value = KeyEvent(arg.report.code, arg.report.mods,
                                arg.report.event_type)
        /\ arg.report.form \in {"no_mods", "empty_mods", "empty_mods_event"}
                => ret.value.mods = 1
        /\ arg.report.form \in {"no_event", "empty_event", "no_mods", "empty_mods"}
                => ret.value.event_type = 1

\* C13 witness: a release of the left ctrl key with the mods field empty,
\* ESC [ 57442 ; : 3 u, decoded
C13_Witness ==
    /\ arg.report.form = "empty_mods_event" /\ arg.report.code = 57442
    /\ ret.kind = "value" /\ ret.value = KeyEvent(57442, 1, 3)

---------------------------------------------------------------------------
(* ctrl_is_down, under SpecMods *)

\* bit 4 of x in two's complement (x may be -1)
Bit4(x) == ((x \div 4) % 2) = 1

\* C14 (as claimed): for every mods >= 0, mods = 0 included, and every mask,
\* ctrl_is_down(mods, mask) is true exactly when mods & mask is non-zero or
\* (mods - 1) & 4 is non-zero.
C14_CtrlIsDown ==
    ret.kind = "value" =>
        (ret.value <=> (BitAnd(arg.mods, arg.ctrl_mask) # 0 \/ Bit4(arg.mods - 1)))

\* C14 (amended): for every mods >= 0 and every mask, ctrl_is_down(mods, mask)
\* is true exactly when mods & mask is non-zero, or mods > 0 and
\* (mods - 1) & 4 is non-zero; it is true for mods = 5, mask = 4 and false
\* for mods = 1, mask = 4 and for mods = 0 whatever the mask.
C14_CtrlIsDownAmended ==
    ret.kind = "value" =>
        /\ ret.value <=> \/ \E b \in {1, 2, 4, 8, 16} :
                                /\ (arg.mods \div b) % 2 = 1
                                /\ (arg.ctrl_mask \div b) % 2 = 1
                         \/ arg.mods > 0 /\ Bit4(arg.mods - 1)
        /\ (arg.mods = 5 /\ arg.ctrl_mask = 4) => ret.value
        /\ (arg.mods = 1 /\ arg.ctrl_mask = 4) => ~ret.value
        /\ arg.mods = 0 => ~ret.value

\* C14 witness: the oracle's "no modifier", mods = 0 with mask 4, is not a
\* held ctrl
C14_Witness ==
    arg.mods = 0 /\ arg.ctrl_mask = 4 /\ ret.kind = "value" /\ ~ret.value

---------------------------------------------------------------------------
(* The idle session, under SpecIdle *)

\* C15 (as claimed): with the oracle unavailable and the marker key not
\* sent, or with stdin at end of file, and no key event or command ever
\* arriving, the session still ends Committed or Cancelled.
C15_NeverHangs ==
    (pc = "loop" /\ ((~mod_query /\ ~marker_sent) \/ arg.eof)) ~> Terminal

\* what does end: a silent session on an open stdin whose marker key was sent
\* and that has no oracle
MarkerSentSessionEnds ==
    (pc = "loop" /\ marker_sent /\ ~mod_query /\ ~arg.eof) ~> Terminal

\* the ids of the selected tab and of its left and right neighbours
NeighbourIds == {tabs[Neighbourhood(tabs, selected_index)[i] + 1].id : i \in 1..3}

Stale(tid) == _preview_stale(preview_cache, preview_cache_ts, tid, now)

\* C19 (as claimed): while the session is Active and idle, a tab of the
\* selection neighbourhood whose cache entry is missing or stale is
\* eventually refetched.
C19_NeighbourhoodKeptFresh ==
    \A tid \in {HostId(1), HostId(2), HostId(3)} :
        (pc = "loop" /\ tid \in NeighbourIds /\ Stale(tid))
            ~> (Terminal \/ ~Stale(tid))

\* what does hold on an open stdin: a neighbourhood tab with no cache entry
\* gets one
MissingPreviewFetched ==
    \A tid \in {HostId(1), HostId(2), HostId(3)} :
        (pc = "loop" /\ ~arg.eof /\ tid \in NeighbourIds
            /\ tid \notin DOMAIN preview_cache)
            ~> (Terminal \/ tid \in DOMAIN preview_cache)

---------------------------------------------------------------------------
(* The persisted stores, under SpecStore *)

\* a file the claim calls corrupt: missing, unreadable, not JSON, JSON that
\* is no object, or an object whose entry for the process or for the group
\* has the wrong type
Corrupt ==
    \/ arg.shape.root # "object"
    \/ arg.shape.pid \in {"null", "number", "string", "list"}
    \/ arg.shape.group \in {"null", "number", "string"}
    \/ arg.store = "previews" /\ arg.shape.group = "list"

\* C16 (as claimed): for every shape of the MRU or preview store file, load
\* returns without raising, empty state for a corrupt file, and the save
\* that follows succeeds.
C16_CorruptionNeverFatal ==
    /\ ret.load.kind \in {"pending", "value"}
    /\ ret.save.kind \in {"pending", "value"}
    /\ (Corrupt /\ ret.load.kind = "value" /\ arg.store = "mru")
            => ret.load.value = EmptyMap
    /\ (Corrupt /\ ret.load.kind = "value" /\ arg.store = "previews")
            => ret.load.value = NoPreviews

\* what does hold: a missing or unreadable file, one that holds no JSON, and
\* an object whose entry for the process is absent or an object, load (a
\* corrupt one as empty state) and are saved over without raising; what is
\* saved is loaded back
SoundRoot ==
    /\ arg.shape.root \in {"missing", "unreadable", "not_json", "object"}
    /\ arg.shape.pid \in {"absent", "object"}

SoundFilesNeverFatal ==
    SoundRoot =>
        /\ ret.load.kind \in {"pending", "value"}
        /\ ret.save.kind \in {"pending", "value"}
        /\ (Corrupt /\ ret.load.kind = "value" /\ arg.store = "mru")
                => ret.load.value = EmptyMap
        /\ (Corrupt /\ ret.load.kind = "value" /\ arg.store = "previews")
                => ret.load.value = NoPreviews
        /\ (ret.save.kind = "value" /\ arg.store = "mru")
                => StateStore_load(ret.save.value, Now0) = Returned(arg.last_used)

\* a corrupt file saved over
CorruptFileSaved ==
    /\ arg.shape.root = "object" /\ arg.shape.group = "number"
    /\ arg.store = "mru" /\ ret.save.kind = "value"

---------------------------------------------------------------------------
(* Empty listings, under SpecMain *)

\* the listing failed: "ls" raised, exited non-zero, or printed what is no
\* JSON list of OS windows
ListingFails ==
    \/ arg.ls.raises \/ arg.ls.returncode # 0 \/ ~arg.ls.json
    \/ list_tabs(arg.ls, KITTY_WINDOW_ID).kind = "raise"

\* the listing gave no tabs
ListingYieldsNoTabs ==
    /\ list_tabs(arg.ls, KITTY_WINDOW_ID).kind = "value"
    /\ list_tabs(arg.ls, KITTY_WINDOW_ID).value[2] = <<>>

\* C17: when listing tabs fails or yields no tabs, the invocation is left
\* right after the listing: no command is sent, no command endpoint bound,
\* no session created or run, no MRU written, no focus switch requested
C17_EmptyListingExits ==
    (ListingFails \/ ListingYieldsNoTabs) =>
        /\ ret.pc \in {"main", "exited", "raised"}
        /\ ret.sent = <<>>
        /\ ret.bound = {}
        /\ pc = "new"
        /\ store = mru
        /\ focus = <<>>

\* C17 witness: main has returned on an empty listing although a session's
\* socket was there to take a command
C17_Witness ==
    /\ ListingFails \/ ListingYieldsNoTabs
    /\ ret.pc = "exited"
    /\ ret.os_window_id \in arg.peers /\ arg.send_ok

---------------------------------------------------------------------------
(* Where the blocking fetch is called, under Spec *)

\* the tabs whose preview a step fetched: every fetch stamps its tab
FetchedInStep ==
    {tid \in DOMAIN preview_cache_ts' :
        tid \notin DOMAIN preview_cache_ts
        \/ preview_cache_ts'[tid] # preview_cache_ts[tid]}

\* C18: the blocking preview fetch is called only from an idle tick, at most
\* once per tick; handling a key event or a command never calls it
C18_FetchOffHotPath ==
    [][FetchedInStep # {} =>
        /\ \E res \in FetchResults : \E mods \in PollMods : Tick(res, mods)
        /\ Cardinality(FetchedInStep) <= 1]_vars

\* an idle tick fetches at most one preview, and a key or a command fetches
\* only previews that the cache lacks
TickFetchesAtMostOne ==
    [][FetchedInStep # {} =>
        \/ /\ \E res \in FetchResults : \E mods \in PollMods : Tick(res, mods)
           /\ Cardinality(FetchedInStep) <= 1
        \/ FetchedInStep \cap DOMAIN preview_cache = {}]_vars

\* before the first idle tick was due, a key or command handler has fetched
\* the previews of two tabs
HandlerFetchedTwo ==
    /\ pc = "loop"
    /\ now - start_time < TICK_MS
    /\ preview_store # EmptyMap
    /\ Cardinality(DOMAIN preview_cache_ts) = 2
    /\ \A tid \in DOMAIN preview_cache_ts : preview_cache_ts[tid] = now

---------------------------------------------------------------------------
(* The visible cards, under SpecDraw *)

Clamp(x, lo, hi) == Max(lo, Min(x, hi))

\* the slice of exactly m tabs that starts at clamp(selected - m div 2, 0, n - m)
Window(ts, sel, m) ==
    SubSeq(ts, Clamp(sel - (m \div 2), 0, Len(ts) - m) + 1,
               Clamp(sel - (m \div 2), 0, Len(ts) - m) + m)

\* C20: when the tab count exceeds the maximum visible-card count, the cards
\* drawn are the window of exactly that many tabs around the selected tab,
\* and the number of cards drawn never exceeds the maximum visible-card count
C20_VisibleWindow ==
    ret.drawn.kind = "value" =>
        /\ Len(arg.tabs) > MAX_VISIBLE_CARDS =>
             /\ ret.drawn.value = Window(arg.tabs, arg.selected_index, MAX_VISIBLE_CARDS)
             /\ arg.tabs[arg.selected_index + 1] \in Range(ret.drawn.value)
        /\ Len(ret.drawn.value) <= MAX_VISIBLE_CARDS

\* _visible_cards(max_cards) by itself gives that window for every limit
\* max_cards below the tab count, and never more than max_cards cards
VisibleCardsWindow ==
    ret.visible.kind = "value" =>
        /\ Len(arg.tabs) > arg.max_cards =>
             /\ ret.visible.value = Window(arg.tabs, arg.selected_index, arg.max_cards)
             /\ arg.tabs[arg.selected_index + 1] \in Range(ret.visible.value)
        /\ Len(ret.visible.value) <= arg.max_cards

\* draw() draws every tab, whatever their number
DrawShowsAllTabs == ret.drawn.kind = "value" => ret.drawn.value = arg.tabs

\* _visible_cards gave a window that touches neither end of the list
WindowInside ==
    /\ ret.visible.kind = "value"
    /\ Len(arg.tabs) > arg.max_cards + 1
    /\ ret.visible.value[1] # arg.tabs[1]
    /\ ret.visible.value[arg.max_cards] # arg.tabs[Len(arg.tabs)]

---------------------------------------------------------------------------
(* One endpoint per running session, under SpecPair *)

\* C21: of two invocations for one host group at most one has a session
\* running at a time, and the endpoint path names the running session's
\* socket until that session closes
C21_OneEndpointPerSession ==
    /\ ~(ret.pc[1] = "running" /\ ret.pc[2] = "running")
    /\ \A i \in Invocations : ret.pc[i] = "running" => ret.path = i

\* what does hold: the path never names the socket of an invocation that
\* has no socket bound, and an invocation that found the running session's
\* socket at the path hands its command over and ends
PathNamesBoundSocket ==
    \A i \in Invocations :
        /\ ret.path = i => ret.pc[i] \in {"running", "close"}
        /\ ret.inbox[i] # <<>> => ret.pc[i] \in {"running", "close"}

\* both invocations have a session running and the first one's endpoint is gone
TwoSessionsRunning ==
    /\ ret.pc[1] = "running" /\ ret.pc[2] = "running"
    /\ ret.path = 2

---------------------------------------------------------------------------
(* Trimming of trailing blank rows, under SpecTrim *)

\* the rows of the input that are not blank
ContentIndices == {i \in 1..Len(arg.lines) : ~IsBlankRow(arg.lines[i])}

\* C22 (as claimed): the content height is the index of the last non-blank
\* row plus 1 and at least 1 for every input, the empty list included, and
\* the number of source rows fed to downsampling is min(contentRows, rows*2)
C22_TrimTrailingBlank ==
    ret.kind = "value" =>
        /\ ContentIndices # {} =>
             /\ ret.value.content_rows \in ContentIndices
             /\ \A i \in ContentIndices : i <= ret.value.content_rows
        /\ ret.value.content_rows >= 1
        /\ Len(ret.value.source) = Min(ret.value.content_rows, arg.rows * 2)

\* C22 (amended): the content height is the index of the last non-blank row
\* plus 1, 1 for an all-blank list that has a row, 0 for the empty list; the
\* first contentRows rows are fed to downsampling and min(contentRows, rows*2)
\* mask rows are asked of it; 24 lines with the last 10 blank give 14
C22_TrimAmended ==
    ret.kind = "value" =>
        /\ ContentIndices # {} =>
             /\ ret.value.content_rows \in ContentIndices
             /\ \A i \in ContentIndices : i <= ret.value.content_rows
        /\ (ContentIndices = {} /\ arg.lines # <<>>) => ret.value.content_rows = 1
        /\ arg.lines = <<>> => ret.value.content_rows = 0
        /\ ret.value.source = SubSeq(arg.lines, 1, ret.value.content_rows)
        /\ ret.value.effective_rows = Min(ret.value.content_rows, arg.rows * 2)
        /\ (/\ Len(arg.lines) = 24 /\ arg.rows = 12
            /\ ContentIndices = 1..14) => ret.value.effective_rows = 14

\* C22 witness: 24 lines with the last 10 blank were trimmed to 14 rows
C22_Witness ==
    /\ ret.kind = "value"
    /\ Len(arg.lines) = 24 /\ arg.rows = 12
    /\ ContentIndices = 1..14
    /\ ret.value.effective_rows = 14

---------------------------------------------------------------------------
(* Plain downsampling, under SpecMask *)

\* the output cells of a mask of arg.rows x arg.cols
MaskCells == (0..(arg.rows - 1)) \X (0..(arg.cols - 1))

\* the non-space characters of the input that lie in rows a..b-1 and columns
\* x..y-1 (counted from 0)
NonSpaceIn(lines, a, b, x, y) ==
    Cardinality({p \in (a..(b - 1)) \X (x..(y - 1)) :
        /\ p[1] + 1 <= Len(lines)
        /\ p[2] + 1 <= Len(lines[p[1] + 1])
        /\ lines[p[1] + 1][p[2] + 1] # " "})

\* C23: an output cell is filled exactly when its sub-rectangle holds a
\* non-space cell and the non-space cells are at least a fifth of it; every
\* sub-rectangle is non-empty and within the source; turning a space into a
\* non-space never turns a filled output cell into an unfilled one
C23_PlainDownsampling ==
    /\ (ret.mask.kind = "value" /\ arg.lines # <<>>) =>
         \A cell \in MaskCells :
            LET r0 == Lo(cell[1], Len(arg.lines), arg.rows)
                r1 == Hi(cell[1], Len(arg.lines), arg.rows)
                c0 == Lo(cell[2], max_len(arg.lines), arg.cols)
                c1 == Hi(cell[2], max_len(arg.lines), arg.cols)
                n == NonSpaceIn(arg.lines, r0, r1, c0, c1)
            IN  /\ 0 <= r0 /\ r0 < r1 /\ r1 <= Len(arg.lines)
                /\ 0 <= c0 /\ c0 < c1 /\ c1 <= max_len(arg.lines)
                /\ ret.mask.value[cell[1] + 1][cell[2] + 1]
                     <=> (n > 0 /\ 5 * n >= (r1 - r0) * (c1 - c0))
    /\ (ret.mask.kind = "value" /\ ret.denser.kind = "value") =>
         \A cell \in MaskCells :
            ret.mask.value[cell[1] + 1][cell[2] + 1]
                => ret.denser.value[cell[1] + 1][cell[2] + 1]

\* C23 witness: an unfilled cell, whose six source cells held one non-space,
\* became filled when a second one was added
C23_Witness ==
    /\ ret.mask.kind = "value" /\ ret.denser.kind = "value"
    /\ arg.flip # <<0, 0>>
    /\ arg.rows = 1 /\ arg.cols = 1
    /\ Len(arg.lines) = 2 /\ max_len(arg.lines) = 3
    /\ ~ret.mask.value[1][1]
    /\ NonSpaceIn(arg.lines, 0, 2, 0, 3) = 1
    /\ ret.denser.value[1][1]

---------------------------------------------------------------------------
(* Color attribution, under SpecColor *)

\* the source positions of output cell (r, c), counted from 0
ColorRect(r, c) ==
    (Lo(r, Len(arg.lines), arg.rows)..(Hi(r, Len(arg.lines), arg.rows) - 1))
    \X (Lo(c, max_len(arg.lines), arg.cols)..(Hi(c, max_len(arg.lines), arg.cols) - 1))

\* its non-space cells, and those of them with the foreground color x
NonSpaceAt(r, c) ==
    {p \in ColorRect(r, c) : CellAt(arg.lines, p[1], p[2])[1] # " "}

WithFg(r, c, x) == {p \in NonSpaceAt(r, c) : CellAt(arg.lines, p[1], p[2])[2] = x}

ColoredAt(r, c) == NonSpaceAt(r, c) \ WithFg(r, c, NoColor)

ColorCells == (0..(arg.rows - 1)) \X (0..(arg.cols - 1))

\* C24: a filled sub-rectangle gets a foreground color exactly when its
\* foreground-colored non-space cells are at least 35% of its non-space
\* cells, and then the most frequent color; 40% of the non-space cells in one
\* color and the rest uncolored give that color, 30% give none
C24_ColorAttribution ==
    ret.kind = "value" =>
        \A cell \in ColorCells :
            LET out == ret.value[cell[1] + 1][cell[2] + 1]
                n == Cardinality(NonSpaceAt(cell[1], cell[2]))
                k == Cardinality(ColoredAt(cell[1], cell[2]))
            IN  /\ out.fg # NoColor <=> (out.filled /\ k > 0 /\ 100 * k >= 35 * n)
                /\ out.fg # NoColor =>
                     \A y \in {Red, Green} :
                        Cardinality(WithFg(cell[1], cell[2], out.fg))
                            >= Cardinality(WithFg(cell[1], cell[2], y))
                /\ \A x \in {Red, Green} :
                     (/\ out.filled /\ n > 0
                      /\ 10 * Cardinality(WithFg(cell[1], cell[2], x)) = 4 * n
                      /\ k = Cardinality(WithFg(cell[1], cell[2], x))) => out.fg = x
                /\ (n > 0 /\ 10 * k = 3 * n) => out.fg = NoColor

\* C24 witness: a sub-rectangle with 2 of its 5 non-space cells red and 3
\* uncolored came out red
C24_Witness ==
    /\ ret.kind = "value"
    /\ arg.rows = 1 /\ arg.cols = 1
    /\ Cardinality(NonSpaceAt(0, 0)) = 5
    /\ Cardinality(WithFg(0, 0, Red)) = 2
    /\ Cardinality(WithFg(0, 0, NoColor)) = 3
    /\ ret.value[1][1].fg = Red

\* a sub-rectangle with 3 of its 10 non-space cells red and 7 uncolored came
\* out filled with no foreground color
ThirtyPercentUncolored ==
    /\ ret.kind = "value"
    /\ arg.rows = 1 /\ arg.cols = 1
    /\ Cardinality(NonSpaceAt(0, 0)) = 10
    /\ Cardinality(WithFg(0, 0, Red)) = 3
    /\ Cardinality(WithFg(0, 0, NoColor)) = 7
    /\ ret.value[1][1].filled
    /\ ret.value[1][1].fg = NoColor

\* two colors tied and the one met first was attributed
TieFirstSeen ==
    /\ ret.kind = "value"
    /\ arg.rows = 1 /\ arg.cols = 1 /\ Len(arg.lines) = 1
    /\ Cardinality(WithFg(0, 0, Red)) = Cardinality(WithFg(0, 0, Green))
    /\ arg.lines[1][1][2] = Green
    /\ ret.value[1][1].fg = Green

---------------------------------------------------------------------------
(* The commit guards of the idle tick, under SpecOracle *)

\* the oracle's results on the first k ticks, the unknown ones left out
KnownResults(k) == SelectSeq(SubSeq(arg.script, 1, k), LAMBDA m : m # NoneVal)

\* held at least once earlier, and the two most recent results not held
ReleasedForTwo(h) ==
    /\ Len(h) >= 3
    /\ ~Bit4(h[Len(h)]) /\ ~Bit4(h[Len(h) - 1])
    /\ \E i \in 1..(Len(h) - 2) : Bit4(h[i])

\* C25: the session commits by the oracle guard exactly on an idle tick
\* whose poll gives a result when the oracle has reported the modifier held
\* on an earlier tick and its two most recent results are both not-held; a
\* held result resets the count, and not-held results before the first held
\* one never commit
C25_OracleGuard ==
    [][pc = "loop" =>
        ((commit_by' = "ctrl_poll_commit") <=>
            /\ now' = now + TICK_MS
            /\ arg.script[(now' - start_time) \div TICK_MS] # NoneVal
            /\ ReleasedForTwo(KnownResults((now' - start_time) \div TICK_MS)))]_vars

\* C25 witness: not held twice, held, not held twice: committed by the
\* oracle guard on the fifth tick, a cycle key having come in between
C25_Witness ==
    /\ commit_by = "ctrl_poll_commit"
    /\ arg.script = <<0, 0, 4, 0, 0>>
    /\ now = start_time + 5 * TICK_MS
    /\ saw_tab_event

---------------------------------------------------------------------------
(* The timeout guards, under SpecMarker (the modifier is never held) *)

\* C26: once the marker key has been echoed back, with the modifier not held
\* and no cycle key observed, the session commits on the first idle tick
\* more than 150 ms after start, also on a terminal that never delivers a
\* release event
C26_MarkerGuard ==
    [][\A res \in FetchResults : \A mods \in NotHeldMods :
        (/\ marker_seen /\ ~saw_tab_event
         /\ now + TICK_MS - start_time > MARKER_TIMEOUT_MS) =>
            (state' = "Committed" \/ ~Tick(res, mods))]_vars

\* what does hold: the commit happens when the marker's release, too, has
\* been read
MarkerGuardAfterRelease ==
    [][\A res \in FetchResults : \A mods \in NotHeldMods :
        (/\ marker_seen /\ ~ctrl_down /\ ~saw_tab_event
         /\ now + TICK_MS - start_time > MARKER_TIMEOUT_MS) =>
            (state' = "Committed" \/ ~Tick(res, mods))]_vars

\* and on a terminal that delivers no release event the marker guard never
\* commits: the echo itself sets ctrl_down, and nothing clears it
NoReleaseNoMarkerCommit ==
    ~arg.releases => commit_by # "marker_no_ctrl_timeout_commit"

\* the marker guard committed
MarkerGuardCommitted ==
    /\ commit_by = "marker_no_ctrl_timeout_commit"
    /\ now - start_time = MARKER_TIMEOUT_MS + TICK_MS

\* no release events, the marker echoed, no oracle: still Active at the last
\* tick in view
NoReleaseStillActive ==
    /\ ~arg.releases /\ ~mod_query
    /\ marker_seen /\ ~saw_tab_event
    /\ pc = "loop" /\ state = "Active"
    /\ now - start_time = MaxElapsed

---------------------------------------------------------------------------
(* The timeout guards, under Spec *)

\* the oracle says "held" on this tick
PolledHeld(mods) == mod_query /\ mods # NoneVal /\ Bit4(mods)

\* C27 (as claimed): when the marker send failed or was not attempted, the
\* initial oracle poll showed the modifier not held and no cycle key has been
\* observed, the session commits on the first idle tick more than 80 ms
\* after start
C27_SinglePressGuard ==
    [][\A res \in FetchResults : \A mods \in PollMods :
        (/\ ~marker_sent
         /\ initial_mods_checked /\ ~initial_ctrl_down
         /\ ~saw_tab_event
         /\ now + TICK_MS - start_time > INITIAL_UP_TIMEOUT_MS) =>
            (state' = "Committed" \/ ~Tick(res, mods))]_vars

\* C27 (amended): ... and neither a ctrl key press nor the marker key has
\* been observed ...
C27_SinglePressAmended ==
    [][\A res \in FetchResults : \A mods \in PollMods :
        (/\ ~marker_sent
         /\ initial_mods_checked /\ ~initial_ctrl_down
         /\ ~saw_tab_event /\ ~ctrl_seen /\ ~marker_seen
         /\ now + TICK_MS - start_time > INITIAL_UP_TIMEOUT_MS) =>
            (state' = "Committed" \/ ~Tick(res, mods))]_vars

\* C27 witness: the single-press guard committed on the tick at 100 ms
C27_Witness ==
    /\ commit_by = "initial_ctrl_up_commit"
    /\ now - start_time = 2 * TICK_MS
    /\ ~marker_sent /\ initial_mods_checked /\ ~initial_ctrl_down

\* C28 (as claimed): when the marker key was sent but has never been echoed
\* back, the session commits on the first idle tick more than 200 ms after
\* start
C28_NoEchoGuard ==
    [][\A res \in FetchResults : \A mods \in PollMods :
        (/\ marker_sent /\ ~marker_seen
         /\ now + TICK_MS - start_time > NO_MARKER_TIMEOUT_MS) =>
            (state' = "Committed" \/ ~Tick(res, mods))]_vars

\* C28 (amended): ... and no key event at all has been observed ...
C28_NoEchoAmended ==
    [][\A res \in FetchResults : \A mods \in PollMods :
        (/\ marker_sent /\ ~marker_seen /\ ~any_key_event
         /\ now + TICK_MS - start_time > NO_MARKER_TIMEOUT_MS) =>
            (state' = "Committed" \/ ~Tick(res, mods))]_vars

\* C28 witness: the no-echo guard committed on the tick at 250 ms
C28_Witness ==
    /\ commit_by = "no_marker_timeout_commit"
    /\ now - start_time = 5 * TICK_MS
    /\ marker_sent /\ ~marker_seen /\ ~any_key_event

\* C29: when some key event has been observed, no cycle key has been seen
\* and the modifier is not held (by the session's flag and this tick's
\* poll), the session commits on the first idle tick more than 200 ms after
\* start
C29_StuckStateGuard ==
    [][\A res \in FetchResults : \A mods \in PollMods :
        (/\ any_key_event /\ ~saw_tab_event
         /\ ~ctrl_down /\ ~PolledHeld(mods)
         /\ now + TICK_MS - start_time > NO_TAB_TIMEOUT_MS) =>
            (state' = "Committed" \/ ~Tick(res, mods))]_vars

\* C29 witness: the stuck-state guard committed on the tick at 250 ms
C29_Witness ==
    /\ commit_by = "no_tab_timeout_commit"
    /\ now - start_time = 5 * TICK_MS
    /\ any_key_event /\ ~saw_tab_event /\ ~ctrl_down

---------------------------------------------------------------------------
(* The decoder's buffer, under SpecBuffer *)

\* no final byte among the bytes of s after ESC [
NoFinalIn(s) == \A i \in 3..Len(s) : ~IsFinal(s[i])

\* the buffer while the loop goes on and when it has ended: the bytes read
\* since ESC, at most `cap` of them, without a final byte except as the
\* last; the loop goes on only below the cap, and it ended on a final byte,
\* past the cap, on a timeout or at the end of the input; at most `reads`
\* reads were made, each step of read_key being one read (ret.reads counts
\* the steps), and read_key can always take its next step until it returns
BufferWithin(cap, reads) ==
    /\ Len(ret.buf) <= cap
    /\ ret.reads <= reads
    /\ ret.pc # "returned" => ENABLED NextBuffer
    /\ ret.buf = SubSeq(arg.bytes, 1, Len(ret.buf))
    /\ ret.pc = "loop" => NoFinalIn(ret.buf) /\ Len(ret.buf) <= BUF_CAP
    /\ ret.pc = "returned" /\ ret.buf # <<>> =>
            /\ NoFinalIn(SubSeq(ret.buf, 1, Len(ret.buf) - 1))
            /\ \/ Len(ret.buf) > 2 /\ IsFinal(ret.buf[Len(ret.buf)])
               \/ Len(ret.buf) > BUF_CAP
               \/ ret.late
               \/ Len(ret.buf) = Len(arg.bytes)

\* C30 (as claimed): while decoding a CSI sequence the buffer grows only
\* until a final byte (0x40..0x7e), a read timeout, or the 64-byte cap: the
\* buffer never holds more than 64 bytes, and read_key returns after a
\* bounded number of byte reads for every input stream, including one with
\* no final byte
C30_BufferCap == BufferWithin(BUF_CAP, BUF_CAP + 1)

\* C30 (amended): ... the buffer never holds more than 65 bytes (the loop
\* ends once the length exceeds 64), and read_key returns after at most 65
\* byte reads ...
C30_BufferAmended == BufferWithin(BUF_CAP + 1, BUF_CAP + 1)

\* every step of read_key is one read
EveryStepReads == [][ret'.reads = ret.reads + 1]_vars

\* C30 witness: a stream without a final byte, longer than the cap: read_key
\* has returned with 65 bytes in the buffer after 65 reads, none of them
\* timed out
C30_Witness ==
    /\ ret.pc = "returned"
    /\ Len(arg.bytes) > BUF_CAP + 1 /\ NoFinalIn(arg.bytes)
    /\ Len(ret.buf) = BUF_CAP + 1
    /\ ret.reads = BUF_CAP + 1
    /\ ~ret.late

\* read by read, and with no byte late, read_key is the function read_key of
\* the bytes that arrive, and its buffer is CsiBuffer
StepwiseIsReadKey ==
    ret.pc = "returned" /\ ~ret.late =>
        /\ ret.result = read_key(arg.bytes)
        /\ ret.buf # <<>> => ret.buf = CsiBuffer(arg.bytes)

\* a timeout in the middle of a sequence: what was accumulated is returned as
\* Escape
TimedOutMidSequence ==
    /\ ret.pc = "returned" /\ ret.late
    /\ Len(ret.buf) > 2 /\ Len(ret.buf) < Len(arg.bytes)
    /\ ret.result = Returned(KeyEvent(ESC_CODE, 1, 1))

---------------------------------------------------------------------------
(* The preview cache, under SpecCache *)

\* the capture time of a cache entry: an entry without a timestamp counts as
\* captured at time 0
CapturedAt(tid) == IF tid \in DOMAIN preview_cache_ts THEN preview_cache_ts[tid] ELSE 0

\* stale at time t, in the words of the claim
StaleAt(tid, t) ==
    tid \notin DOMAIN preview_cache \/ t - CapturedAt(tid) >= PREVIEW_REFRESH_MS

\* the entry of tid was written in this step
Written(tid) ==
    \/ tid \notin DOMAIN preview_cache
    \/ tid \in DOMAIN preview_cache_ts /\ preview_cache_ts'[tid] # preview_cache_ts[tid]
    \/ tid \notin DOMAIN preview_cache_ts /\ tid \in DOMAIN preview_cache_ts'
    \/ preview_cache'[tid] # preview_cache[tid]

\* stale after this step, in the words of the claim
StaleAfter(tid) ==
    \/ tid \notin DOMAIN preview_cache'
    \/ now' - (IF tid \in DOMAIN preview_cache_ts' THEN preview_cache_ts'[tid] ELSE 0)
            >= PREVIEW_REFRESH_MS

\* C31: a preview-cache entry is stale exactly when it is absent or
\* now - capturedAt >= 0.5 s (an entry loaded without a timestamp counts as
\* captured at time 0); entries are never evicted, so the set of tab ids with
\* a cache entry never shrinks during a session, and an entry is only
\* replaced in place by a fetch.  In every step: no id leaves the cache; an
\* entry that is written was stale and is a fetch result stamped with the
\* time of the step; an idle tick fetches the tab at the head of the queue
\* exactly when it is stale; and every tab a draw or a key queues is stale,
\* a key queueing every stale tab of the neighbourhood
C31_StaleAndNeverEvicted ==
    [][/\ DOMAIN preview_cache \subseteq DOMAIN preview_cache'
       /\ DOMAIN preview_cache_ts \subseteq DOMAIN preview_cache_ts'
       /\ \A tid \in DOMAIN preview_cache' :
            Written(tid) =>
                /\ StaleAt(tid, now')
                /\ preview_cache'[tid] \in FetchResults
                /\ tid \in DOMAIN preview_cache_ts' /\ preview_cache_ts'[tid] = now'
       /\ \A res \in FetchResults :
            (CacheTick(res) /\ preview_queue # <<>>) =>
                (StaleAt(Head(preview_queue), now') <=> Written(Head(preview_queue)))
       /\ \A tid \in Range(preview_queue') \ Range(preview_queue) : StaleAfter(tid)
       /\ \A d \in Delays : CacheKey(d) =>
            \A tid \in Range(TabIds(tabs)) :
                StaleAfter(tid) => tid \in Range(preview_queue')]_vars

\* C31 witness: the entry of a tab that was loaded without a timestamp has
\* been replaced by a fetch, and so has the entry of a tab that was loaded as
\* captured at the start, once it was 0.5 s old
C31_Witness ==
    /\ pc = "loop"
    /\ \E a, b \in DOMAIN arg.loaded :
        /\ arg.loaded[a].ts = NoneVal
        /\ a \in DOMAIN preview_cache_ts
        /\ arg.loaded[b].ts = Now0
        /\ preview_cache_ts[b] >= Now0 + PREVIEW_REFRESH_MS

\* an entry loaded without a timestamp is fetched by the first idle tick
NoTimestampFetchedFirst ==
    /\ pc = "loop" /\ now = start_time + TICK_MS
    /\ \E a \in DOMAIN arg.loaded :
        /\ arg.loaded[a].ts = NoneVal
        /\ preview_cache_ts = (a :> now)

---------------------------------------------------------------------------
(* Failed fetches, under SpecCache *)

\* the fetch failed: an exception, a non-success status, or an empty text
Failed(o) == o.raises \/ o.returncode # 0 \/ o.stdout = ""

\* C32: when a preview fetch fails (non-success status, empty text, or an
\* exception) the tab's cache entry becomes a blank placeholder stamped with
\* the current time, the failure is not retried in the same tick or event,
\* and the session stays Active; the tab is fetched again only after the
\* placeholder has become stale.  A failed fetch gives the placeholder; the
\* idle tick that makes it leaves the placeholder in the cache, stamped with
\* the time of the tick, and the session Active in its loop; so does a key or
\* command that leaves a placeholder; and a placeholder is overwritten only
\* when it is 0.5 s old
C32_FailedFetchPlaceholder ==
    [][/\ \A o \in HostOutcomes : Failed(o) =>
            /\ _fetch_preview(o) = "blank"
            /\ (CacheTick(_fetch_preview(o)) /\ preview_queue # <<>>
                    /\ StaleAt(Head(preview_queue), now')) =>
                    /\ preview_cache'[Head(preview_queue)] = "blank"
                    /\ preview_cache_ts'[Head(preview_queue)] = now'
                    /\ state' = "Active" /\ pc' = "loop"
       /\ \A tid \in DOMAIN preview_cache' :
            (Written(tid) /\ preview_cache'[tid] = "blank") =>
                /\ preview_cache_ts'[tid] = now'
                /\ state' = "Active" /\ pc' = "loop"
       /\ \A tid \in DOMAIN preview_cache :
            (Written(tid) /\ preview_cache[tid] = "blank"
                    /\ tid \in DOMAIN preview_cache_ts) =>
                now' - preview_cache_ts[tid] >= PREVIEW_REFRESH_MS]_vars

\* C32 witness: the placeholder a failed fetch left is in the cache of an
\* Active session, has become stale and is at the head of the queue, to be
\* fetched again by the next idle tick
C32_Witness ==
    /\ pc = "loop" /\ state = "Active"
    /\ preview_queue # <<>>
    /\ Head(preview_queue) \in DOMAIN preview_cache
    /\ preview_cache[Head(preview_queue)] = "blank"
    /\ now + TICK_MS - preview_cache_ts[Head(preview_queue)] >= PREVIEW_REFRESH_MS

\* a placeholder that is not yet stale is still in the cache nine ticks after
\* the fetch failed
PlaceholderKept ==
    /\ pc = "loop"
    /\ \E tid \in DOMAIN preview_cache :
        /\ preview_cache[tid] = "blank"
        /\ now - preview_cache_ts[tid] = PREVIEW_REFRESH_MS - TICK_MS

---------------------------------------------------------------------------
(* Bare SGR parameters, under SpecSgr *)

DoubleZeroIsBlack ==
    /\ ret.kind = "value"
    /\ arg.seq = <<48, 48>> /\ arg.bg = <<36, 114, 200>>
    /\ ret.value = [fg |-> <<0, 0, 0>>, bg |-> <<36, 114, 200>>]

---------------------------------------------------------------------------
(* After a cycle key, under Spec *)

\* the commits of the four timeout guards
TimeoutCommits ==
    {"marker_no_ctrl_timeout_commit", "initial_ctrl_up_commit",
     "no_marker_timeout_commit", "no_tab_timeout_commit"}

\* the presses of Escape and of the quit key
CancelKeys == {ev \in KeyEvents : ev.key_code \in {ESC_CODE, Q_CODE} /\ ev.event_type = 1}

\* the release events of the ctrl-class keys
CtrlReleases == {ev \in KeyEvents : ev.key_code \in CTRL_KEY_CODES /\ ev.event_type = 3}

\* C34: once a cycle key event has been observed in a session, none of the
\* four timeout guards can ever commit; from then on the session ends only
\* through a ctrl-class key release event, the oracle's two-tick release
\* streak, Escape, or the quit key, and otherwise stays Active
C34_NoTimeoutAfterCycleKey ==
    [][saw_tab_event =>
        /\ saw_tab_event'
        /\ commit_by' \notin TimeoutCommits
        /\ (state = "Active" /\ state' # "Active") =>
            \/ /\ state' = "Committed" /\ commit_by' = "ctrl_release_commit"
               /\ \E ev \in CtrlReleases : \E d \in Delays : Key(ev, d)
            \/ /\ state' = "Committed" /\ commit_by' = "ctrl_poll_commit"
               /\ poll_ctrl_seen' /\ ctrl_up_streak' >= 2
               /\ \E res \in FetchResults : Tick(res, 0)
            \/ /\ state' = "Cancelled"
               /\ \E ev \in CancelKeys : \E d \in Delays : Key(ev, d)]_vars

\* C34 witness: a Tab press without modifier was read and the marker key
\* echoed and released; the tick at 250 ms, past every timeout, has left the
\* session Active
C34_Witness ==
    /\ pc = "loop" /\ state = "Active"
    /\ saw_tab_event /\ any_key_event /\ marker_seen /\ ~ctrl_down
    /\ now - start_time = MaxElapsed
    /\ MaxElapsed > NO_TAB_TIMEOUT_MS

---------------------------------------------------------------------------
(* The held-flag, under Spec *)

\* the release events of the ctrl-class keys and of the marker key
HeldReleases ==
    {ev \in KeyEvents : /\ ev.key_code \in CTRL_KEY_CODES \cup {MARKER_KEY_CODE}
                        /\ ev.event_type = 3}

\* the press events of the marker key
MarkerPresses ==
    {ev \in KeyEvents : ev.key_code = MARKER_KEY_CODE /\ ev.event_type = 1}

\* C35: ctrl_down becomes false only through a release event of a ctrl-class
\* key or of the marker key; an oracle poll that reports the modifier not
\* held never clears it, and an echoed marker press sets it to true
C35_HeldFlag ==
    [][/\ (ctrl_down /\ ~ctrl_down') =>
            \E ev \in HeldReleases : \E d \in Delays : Key(ev, d)
       /\ \A res \in FetchResults :
            (mod_query /\ ctrl_down) => (ctrl_down' \/ ~Tick(res, 0))
       /\ \A ev \in MarkerPresses : \A d \in Delays :
            ctrl_down' \/ ~Key(ev, d)]_vars

\* C35 witness: no key was read; the oracle reported the modifier held and
\* then not held, and the flag is still set
C35_Witness ==
    /\ pc = "loop" /\ state = "Active"
    /\ ~any_key_event /\ mod_query
    /\ poll_ctrl_seen /\ ctrl_up_streak = 1 /\ ctrl_down

\* the flag was set by the marker's echo alone: the oracle never reported
\* the modifier held and no other key was read
MarkerEchoSetsHeld ==
    /\ pc = "loop" /\ state = "Active"
    /\ marker_seen /\ ctrl_down /\ ~poll_ctrl_seen /\ ~saw_tab_event
    /\ ~initial_ctrl_down

---------------------------------------------------------------------------
(* Releases of the ctrl key, under Spec *)

\* C36: a release event of a ctrl-class key commits the session at once if
\* and only if a cycle key has been observed or more than 200 ms have
\* elapsed since start; otherwise the release only clears the held-flag
\* (and is recorded as a key event, as every key is) and the session stays
\* Active
C36_CtrlRelease ==
    [][\A ev \in CtrlReleases : \A d \in Delays :
        \/ ~Key(ev, d)
        \/ IF saw_tab_event \/ (now + d) - start_time > 200
           THEN /\ state' = "Committed"
                /\ commit_by' = "ctrl_release_commit"
                /\ pc' = "done"
           ELSE /\ state' = "Active" /\ pc' = "loop"
                /\ ~ctrl_down' /\ any_key_event'
                /\ UNCHANGED <<selected_index, saw_tab_event, marker_seen,
                               ctrl_seen, poll_ctrl_seen, ctrl_up_streak,
                               commit_by, preview_queue>>
                /\ UNCHANGED constructed]_vars

\* C36 witness: a ctrl press and its release were read within the first
\* 200 ms, no cycle key and no marker; the session is still Active at
\* exactly 200 ms
C36_Witness ==
    /\ pc = "loop" /\ state = "Active"
    /\ ctrl_seen /\ ~ctrl_down /\ ~marker_seen /\ ~saw_tab_event
    /\ ~poll_ctrl_seen
    /\ now - start_time = 200

\* the release commits without a cycle key, on elapsed time alone
ReleaseCommitsOnTime ==
    state = "Committed" /\ commit_by = "ctrl_release_commit" /\ ~saw_tab_event

\* the release commits within the first 200 ms, a cycle key having been read
ReleaseCommitsAfterTab ==
    /\ state = "Committed" /\ commit_by = "ctrl_release_commit"
    /\ saw_tab_event /\ now - start_time < 200

---------------------------------------------------------------------------
(* Unrecognised input, under SpecStdin *)

\* the parameter bytes (0x30..0x3f) of a CSI sequence bs whose final byte
\* is at position i
ParameterBytes(bs, i) == SelectSeq(SubSeq(bs, 3, i - 1), LAMBDA b : b \in 48..63)

\* the input the decoder does not recognise: ESC and a byte other than '[';
\* a CSI sequence with no final byte (cut off); a CSI sequence whose final
\* byte is none of Z, I, u and is not '~' with the parameter 9 or 24
Unrecognised(bs) ==
    /\ Len(bs) >= 2 /\ bs[1] = 27
    /\ \/ bs[2] # 91
       \/ /\ bs[2] = 91
          /\ LET finals == {i \in 3..Len(bs) : bs[i] \in 64..126}
             IN  \/ finals = {}
                 \/ \E i \in finals :
                        /\ \A j \in finals : i <= j
                        /\ bs[i] \notin {90, 73, 117}
                        /\ ~(/\ bs[i] = 126
                             /\ ParameterBytes(bs, i) \in {<<57>>, <<50, 52>>})

\* C37: every input the decoder does not recognise cancels the session: a
\* CSI sequence with a final byte other than Z, I, u or a '~' with parameter
\* 9 or 24, an ESC followed by a byte other than '[', and a CSI sequence cut
\* off by the per-byte timeout are each delivered as an Escape press, which
\* moves an Active session to Cancelled
C37_UnrecognisedCancels ==
    [][\A d \in Delays :
        (Unrecognised(arg.bytes) /\ Stdin(d)) =>
            /\ read_key(arg.bytes) = Returned(KeyEvent(ESC_CODE, 1, 1))
            /\ state = "Active" /\ state' = "Cancelled" /\ pc' = "done"
            /\ UNCHANGED <<store, focus, selected_index>>]_vars

\* C37 witness: the arrow key ESC [ A has cancelled the session
C37_Witness ==
    /\ arg.bytes = <<27, 91, 65>> /\ Unrecognised(arg.bytes)
    /\ state = "Cancelled" /\ pc = "done"

\* a sequence cut off before its final byte has cancelled the session, also
\* one cut off inside the marker's legacy form ESC [ 24 ~
CutOffCancels ==
    /\ arg.bytes = <<27, 91, 50, 52>>
    /\ state = "Cancelled" /\ pc = "done"

\* the input the decoder does recognise is not read as Escape: the legacy
\* Tab with a blank before the final byte, ESC [ 9 SP ~, has moved the
\* selection
BlankBeforeFinalIsTab ==
    /\ arg.bytes = <<27, 91, 57, 32, 126>> /\ ~Unrecognised(arg.bytes)
    /\ saw_tab_event /\ state = "Active"

---------------------------------------------------------------------------
(* Commit, then reconcile, under SpecRound *)

\* C38: commit then reconcile is a round trip: if a session commits with MRU
\* order O and the next session of the same (process, group) sees the same
\* set of tabs, with the committed tab active and no host-supplied
\* timestamps, then reconciling against the persisted map yields exactly
\* the order O
C38_RoundTrip ==
    /\ ret.pc # "raised"
    /\ ret.pc = "reconciled" => ret.tabs = ret.order
    /\ ret.pc \in {"loaded", "reconciled"} =>
            ret.mru = CommitScores(ret.order, Now0)

\* C38 witness: three tabs in MRU order 5, 2, 7 with 5 the original; the
\* session commits 7 over a file with older scores; the host of the next
\* session lists 2, 5, 7 and the clock was set back: reconciled to 7, 5, 2
C38_Witness ==
    /\ arg.mru_order = <<5, 2, 7>> /\ arg.original_tab_id = 5 /\ arg.tab_id = 7
    /\ arg.host = <<2, 5, 7>> /\ arg.later = -5
    /\ arg.file.kind = "json"
    /\ ret.pc = "reconciled" /\ ret.tabs = <<7, 5, 2>>

---------------------------------------------------------------------------
(* Saves into the shared store file, under SpecSavers *)

\* the entry of process p and group g in a store file, null if there is none
EntryOf(file, p, g) ==
    IF /\ file.kind = "json" /\ file.data.t = "object"
       /\ p \in DOMAIN file.data.v /\ file.data.v[p].t = "object"
       /\ g \in DOMAIN file.data.v[p].v
    THEN file.data.v[p].v[g] ELSE JNull

StoreKeys == {<<"88", "1">>, <<PidKey, "1">>, <<PidKey, "2">>, <<PidKey, "3">>}

\* no save is under way
Quiescent == \A i \in Savers : ret.pc[i] = "idle"

\* the file holds, for every key, what was saved last under it, and what
\* the file held before for a key no session saved under
NothingLost ==
    \A key \in StoreKeys :
        EntryOf(ret.file, key[1], key[2]) =
            IF \E i \in Savers : /\ key = <<PidKey, SaverKey(i)>> /\ ret.saves[i] > 0
            THEN SaverPayload(arg.store,
                    CHOOSE i \in Savers : key = <<PidKey, SaverKey(i)>>,
                    ret.saves[CHOOSE i \in Savers : key = <<PidKey, SaverKey(i)>>])
            ELSE EntryOf(arg.file, key[1], key[2])

\* C39 (as claimed): saving a session's MRU map or preview map replaces only
\* the entry of its own (processID, groupID) key; the entries of every other
\* key in the shared store file are unchanged after the save, also when
\* sessions of two different groups save concurrently (no lost update)
C39_NoLostUpdate == Quiescent => NothingLost

\* what does hold: saves that do not overlap replace only their own entry
SerialSavesLoseNothing == (Quiescent /\ ~ret.overlap) => NothingLost

\* both sessions have saved twice, one save after the other
SerialSavesDone ==
    /\ Quiescent /\ ~ret.overlap /\ arg.file = SharedFile
    /\ \A i \in Savers : ret.saves[i] = MaxSaves

\* a save that read the file while the other session had it open has
\* written back only its own entry
OnlyOwnEntryLeft ==
    /\ Quiescent /\ arg.file = SharedFile
    /\ EntryOf(ret.file, "88", "1") = JNull
    /\ EntryOf(ret.file, PidKey, "3") = JNull

---------------------------------------------------------------------------
(* Commands sent to a running session, under SpecSend *)

\* the invocations that reported their command sent
Reported == {j \in Senders : ret.sender[j] = "command_sent"}

\* C40 (as claimed): a command is never lost: whenever an invocation
\* reports that its "next"/"prev" command was sent to a running session (and
\* therefore exits without opening a session of its own), that command is
\* applied to the running session's selection before the session commits or
\* cancels
C40_CommandNeverLost ==
    ret.pc \in {"close", "close_unlink", "exited"} =>
        \A j \in Reported : j \in Range(ret.applied)

\* what does hold: a command queued when select() is called is applied
\* before the session handles a key or the idle branch, and a command
\* reported sent is applied, still queued, or was queued when run() returned
QueuedAtSelectApplied ==
    [][/\ \A keys \in BOOLEAN :
            (ret.inbox # <<>> /\ Select(keys)) => "socket" \in ret'.ready
       /\ \A ends \in BOOLEAN :
            (HandleKey(ends) \/ HandleIdle(ends)) => "socket" \notin ret.ready
       /\ ret.pc \in {"select", "handle"} =>
            Reported = Range(ret.applied) \cup Range(ret.inbox)]_vars

\* every command sent was applied: both invocations reported, the session
\* has ended
AllApplied ==
    /\ ret.pc = "exited"
    /\ Reported = Senders /\ Range(ret.applied) = Senders

\* a command reported sent was dropped with the socket
SentAndDropped ==
    /\ ret.pc = "exited"
    /\ \E j \in Reported : j \notin Range(ret.applied)

====
